---- MODULE Spec2Model ----
(***************************************************************************)
(* GoMikroBot: the agent loop (internal/agent), the message bus it is      *)
(* driven by (internal/bus) and the HTTP boundary middleware               *)
(* (internal/httpmw).  Strings that the code takes apart (session keys,    *)
(* header values, peer addresses) are sequences of one-character strings;  *)
(* strings that are only compared are TLA+ strings.                        *)
(***************************************************************************)
EXTENDS Integers, Sequences, FiniteSets, Bags, TLC

\* ------------------------------------------------------------------ bounds
\* inbound messages a channel adapter publishes in one behaviour
MaxInbound == 2
\* largest configured maxToolIterations explored (the options are 1..MaxIterOpt)
MaxIterOpt == 2
\* most tool calls the provider puts in one response
MaxToolCalls == 2
\* most subscribers registered on the bus
MaxSubs == 2
\* capacity of the inbound and of the outbound queue of the bus
BusCapacity == 2

\* allow calls one client key makes at one instant
MaxCallsPerInstant == 15
\* times the clock is advanced in one behaviour
MaxAdvances == 1
\* allow calls any other client key makes at one instant
OtherCallsPerInstant == 2
\* resolution of the clock: ticks per second (a token is TicksPerSecond units)
TicksPerSecond == 10
\* longest X-Forwarded-For / X-Real-IP value and longest peer address drawn
MaxHeaderLen == 3
MaxRipLen == 2
MaxAddrLen == 3

\* requests the API server answers, and handler panics among them
MaxHttpRequests == 3
MaxPanics == 1
\* goroutines calling RateLimiter.allow at the same time
MaxCallers == 3
MaxSpawned == 2
ExecTimeoutSeconds == 5

\* ------------------------------------------------------- program constants
DefaultRPS == 5
DefaultBurst == 10
CleanupThreshold == 4096
IdleWindowSeconds == 600
StatusTooManyRequests == 429
StatusOK == 200
StatusInternalServerError == 500
StatusServiceUnavailable == 503
StatusMethodNotAllowed == 405
StatusBadRequest == 400
StatusNotFound == 404
DefaultMaxIterations == 20
HistoryWindow == 50
MaxIterationsMessage == "Max iterations reached. Please try a simpler request."

\* ------------------------------------------------------------ string tools
\* strings.Index for a one-character separator: 0 when absent, else the
\* 1-based position of the first occurrence
IndexOf(s, c) ==
  IF \E i \in 1..Len(s) : s[i] = c
  THEN CHOOSE i \in 1..Len(s) : s[i] = c /\ \A j \in 1..(i - 1) : s[j] # c
  ELSE 0

\* strings.LastIndex for a one-character separator
LastIndexOf(s, c) ==
  IF \E i \in 1..Len(s) : s[i] = c
  THEN CHOOSE i \in 1..Len(s) : s[i] = c /\ \A j \in (i + 1)..Len(s) : s[j] # c
  ELSE 0

\* strings.SplitN(s, sep, 2)
SplitN2(s, sep) ==
  LET i == IndexOf(s, sep)
  IN  IF i = 0 THEN <<s>>
      ELSE <<SubSeq(s, 1, i - 1), SubSeq(s, i + 1, Len(s))>>

\* ------------------------------------------------------------- agent data
Workers == {"run", "direct"}

\* the goroutines that call RateLimiter.allow at the same time
Callers == 1..MaxCallers

ChannelNames == {<<"t">>, <<"w">>}
ChatIDs == {<<"1">>}
UserContents == {"hi"}
ProviderContents == {"", "ok"}
RegisteredTools == {"read_file", "write_file", "edit_file", "list_dir", "exec"}
ToolCallChoices ==
  { [ID |-> "c1", Name |-> "read_file"], [ID |-> "c2", Name |-> "nope"] }

RECURSIVE SeqsUpTo(_, _)
SeqsUpTo(S, n) ==
  IF n = 0 THEN {<<>>}
  ELSE LET shorter == SeqsUpTo(S, n - 1)
       IN  shorter \cup { Append(q, x) : q \in {r \in shorter : Len(r) = n - 1}, x \in S }

\* provider.ChatResponse as far as the loop reads it, with the error result
ChatResponses ==
  { [Content |-> c, ToolCalls |-> <<>>, err |-> FALSE] : c \in ProviderContents }
  \cup { [Content |-> "", ToolCalls |-> tcs, err |-> FALSE] :
            tcs \in SeqsUpTo(ToolCallChoices, MaxToolCalls) }
  \cup { [Content |-> "", ToolCalls |-> <<>>, err |-> TRUE] }

Msg(role, content) ==
  [Role |-> role, Content |-> content, ToolCalls |-> <<>>, ToolCallID |-> ""]

NoRequest == [Channel |-> <<>>, ChatID |-> <<>>, Content |-> "", id |-> 0]

VARIABLES
  maxIterations,  \* Loop.maxIterations
  running,        \* Loop.running
  cancelled,      \* the context handed to Run and DispatchOutbound is done
  dispatcher,     \* DispatchOutbound: "init", "running" or "exited"
  inbound,        \* MessageBus.inbound
  outbound,       \* MessageBus.outbound
  subs,           \* MessageBus.subs: channel -> subscribers in registration order
  delivered,      \* per subscriber, the messages its callback was invoked with
  sessions,       \* session.Manager: key -> messages of the session
  saved,          \* what Save last persisted per key
  pc,             \* per worker, where it is
  cur,            \* per worker, the request of the turn
  messages,       \* per worker, runAgentLoop's messages
  iter,           \* per worker, runAgentLoop's i
  pending,        \* per worker, the tool calls of the response not yet executed
  response,       \* per worker, the turn's returned text
  turnErr,        \* per worker, the turn returned an error
  baseLen,        \* history: length of messages when the turn started
  respLog,        \* history: the provider responses of the turn
  executed,       \* history: identifiers of the tool calls executed in the turn
  turnLog,        \* history: consumed inbound messages with their replies
  published,      \* history: number of inbound messages published so far
  directCalls     \* history: number of ProcessDirect calls made from outside Run

VARIABLES
  rps,            \* RateLimiter.rps
  burst,          \* RateLimiter.burst
  buckets,        \* RateLimiter.buckets, for the client keys that are followed
  others,         \* RateLimiter.buckets, the other clients' buckets: a bag of lastHit
  now,            \* time.Now(), in ticks
  lastReq,        \* history: what the last request through the middleware did
  mon,            \* history: per key, the calls of its first burst and of the next
  ctorArgs,       \* history: the arguments NewRateLimiter was called with
  advances,       \* history: number of times the clock was advanced
  keyReq,         \* the request clientIPKey is applied to
  keyOut          \* its result, <<"none">> before the call

VARIABLES
  gw,             \* runGateway: "starting", "started" (channels started), "serving",
                  \* then the steps of its shutdown, up to "returned"
  ready,          \* runGateway: the readiness flag (atomic.Int32)
  waStart,        \* history: how wa.Start ended: "none", "ok" or "failed"
  inflight,       \* the /chat request whose handler is inside ProcessDirect
  lastHttp,       \* history: the last request the API server answered
  panics,         \* history: number of handler panics so far
  httpCount       \* history: number of requests that reached the API server

VARIABLES
  execCfg,        \* ExecTool: Timeout, RestrictToWorkspace, WorkDir
  execIn,         \* the parameters Execute is called with
  execOut,        \* what Execute returned, NoExecOut before the call
  cwd,            \* the working directory of the process
  lastProc,       \* the process the last call of Execute ran, NoProc if none
  spawned         \* history: the number of processes Execute has run

VARIABLES
  callIn,         \* the arguments of the function applied last, NoCall before
  callOut         \* what it returned

VARIABLES
  mu,             \* RateLimiter.mu: the caller holding it, 0 when free
  apc,            \* per concurrent caller of allow, where it is
  aloc,           \* per caller, the token count it read
  aret            \* per caller, what allow returned: "none", "allowed", "denied"

VARIABLES
  deadline,       \* runGateway: when shutdownCtx expires, in ticks; 0 before
  dashBusy,       \* the dashboard server has a request in flight
  downLog         \* history: the steps of runGateway's shutdown, with their times

agentVars == <<maxIterations, running, cancelled, dispatcher, inbound, outbound,
               subs, delivered, sessions, saved, pc, cur, messages, iter,
               pending, response, turnErr, baseLen, respLog, executed,
               turnLog, published, directCalls>>

rlVars == <<rps, burst, buckets, others, now, lastReq, mon, ctorArgs, advances,
           keyReq, keyOut>>
limVars == <<rps, burst, buckets, others, now, lastReq, mon, ctorArgs, advances>>

httpVars == <<gw, ready, waStart, inflight, lastHttp, panics, httpCount>>
execVars == <<execCfg, execIn, execOut, cwd, lastProc, spawned>>
callVars == <<callIn, callOut>>
downVars == <<deadline, dashBusy, downLog>>
lockVars == <<mu, apc, aloc, aret>>
edgeVars == <<httpVars, execVars, callVars, downVars, lockVars>>

vars == <<agentVars, rlVars, edgeVars>>

busVars == <<inbound, outbound, subs, delivered, published>>
ctlVars == <<maxIterations, running, cancelled, dispatcher, directCalls>>
sessVars == <<sessions, saved>>
turnVars == <<pc, cur, messages, iter, pending, response, turnErr, baseLen, respLog, executed>>

\* --------------------------------------------------------------- NewLoop
NewLoopMaxIter(opt) == IF opt = 0 THEN DefaultMaxIterations ELSE opt

\* ------------------------------------------------------- session, context
\* processMessage: fmt.Sprintf("%s:%s", msg.Channel, msg.ChatID)
SessionKeyOf(channel, chatID) == channel \o <<":">> \o chatID

\* ProcessDirect: channel and chat ID parsed back from the session key
ParseSessionKey(key) ==
  LET parts == SplitN2(key, ":")
  IN  IF Len(parts) = 2
      THEN [channel |-> parts[1], chatID |-> parts[2]]
      ELSE [channel |-> <<"c", "l", "i">>, chatID |-> <<"d", "e", "f", "a", "u", "l", "t">>]

\* Manager.GetOrCreate followed by Session.AddMessage(role, content)
AddMessage(store, key, role, content) ==
  LET old == IF key \in DOMAIN store THEN store[key] ELSE <<>>
  IN  [k \in DOMAIN store \cup {key} |->
         IF k = key THEN Append(old, [Role |-> role, Content |-> content]) ELSE store[k]]

\* Session.GetHistory(n): the n most recent messages, oldest first
GetHistory(sessMsgs, n) ==
  IF Len(sessMsgs) <= n THEN sessMsgs
  ELSE SubSeq(sessMsgs, Len(sessMsgs) - n + 1, Len(sessMsgs))

\* (a BuildMessages that keeps the recorded copy of the current message)
BuildMessagesWithCopy(sessMsgs, currentMessage, channel, chatID) ==
  <<Msg("system", <<"system prompt">>)>>
  \o [j \in 1..Len(GetHistory(sessMsgs, HistoryWindow)) |->
        Msg(GetHistory(sessMsgs, HistoryWindow)[j].Role,
            GetHistory(sessMsgs, HistoryWindow)[j].Content)]
  \o <<Msg("user", currentMessage)>>

\* ContextBuilder.BuildMessages
BuildMessages(sessMsgs, currentMessage, channel, chatID) ==
  LET systemPrompt == IF channel # <<>> /\ chatID # <<>>
                      THEN <<"system prompt", channel, chatID>>
                      ELSE <<"system prompt">>
      history == GetHistory(sessMsgs, HistoryWindow)
      historyMessages ==
        IF Len(history) > 0 /\ history[Len(history)].Content = currentMessage
        THEN SubSeq(history, 1, Len(history) - 1)
        ELSE history
  IN  <<Msg("system", systemPrompt)>>
      \o [j \in 1..Len(historyMessages) |->
            Msg(historyMessages[j].Role, historyMessages[j].Content)]
      \o <<Msg("user", currentMessage)>>

\* Registry.Execute(ctx, name, args): the (result, err) pairs it can return
RegistryExecute(name) ==
  IF name \in RegisteredTools
  THEN { [result |-> "tool output", err |-> FALSE], [result |-> "", err |-> TRUE] }
  ELSE { [result |-> "Error: tool not found", err |-> FALSE] }

\* ------------------------------------------------------------ runAgentLoop
\* (a loop whose test lets one more pass through)
LoopTestOffByOne(i) == i <= maxIterations

\* (a loop that goes on past its cap)
LoopTestPastCap(i) == i < maxIterations + MaxIterOpt

\* the for statement's test: where the loop goes with counter i
LoopTest(i) == i < maxIterations

\* (a return that drops the response's text)
ReturnedContentDropped(r) == ""

\* what the loop returns for a response without tool calls
ReturnedContent(r) == r.Content

\* (a tool result that is not keyed by its call)
ToolResultMessageUnkeyed(tc, o) ==
  [Role |-> "tool",
   Content |-> IF o.err THEN "Error: tool failed" ELSE o.result,
   ToolCalls |-> <<>>,
   ToolCallID |-> ""]

\* (a tool result without its text)
ToolResultMessageBlank(tc, o) ==
  [Role |-> "tool", Content |-> "", ToolCalls |-> <<>>, ToolCallID |-> tc.ID]

\* the message appended for tool call tc with outcome o
ToolResultMessage(tc, o) ==
  [Role |-> "tool",
   Content |-> IF o.err THEN "Error: tool failed" ELSE o.result,
   ToolCalls |-> <<>>,
   ToolCallID |-> tc.ID]

\* the message appended for a response with tool calls
AssistantMessage(r) ==
  [Role |-> "assistant", Content |-> r.Content, ToolCalls |-> r.ToolCalls, ToolCallID |-> ""]

\* ProcessDirect up to the first pass through the loop's test
BeginTurn(w, req, key) ==
  LET parsed == ParseSessionKey(key)
      store == AddMessage(sessions, key, "user", req.Content)
      msgs == BuildMessages(store[key], req.Content, parsed.channel, parsed.chatID)
  IN  /\ sessions' = store
      /\ cur' = [cur EXCEPT ![w] = req @@ [key |-> key]]
      /\ messages' = [messages EXCEPT ![w] = msgs]
      /\ baseLen' = [baseLen EXCEPT ![w] = Len(msgs)]
      /\ iter' = [iter EXCEPT ![w] = 0]
      /\ pending' = [pending EXCEPT ![w] = <<>>]
      /\ respLog' = [respLog EXCEPT ![w] = <<>>]
      /\ executed' = [executed EXCEPT ![w] = <<>>]
      /\ turnErr' = [turnErr EXCEPT ![w] = FALSE]
      /\ IF LoopTest(0)
         THEN /\ pc' = [pc EXCEPT ![w] = "chat"]
              /\ response' = [response EXCEPT ![w] = ""]
         ELSE /\ pc' = [pc EXCEPT ![w] = "ret"]
              /\ response' = [response EXCEPT ![w] = MaxIterationsMessage]

\* (a loop that goes on with the response after a failed provider call)
ChatFailedNever(r) == FALSE

\* the test after l.provider.Chat: err != nil
ChatFailed(r) == r.err

\* provider.Chat returns r; the loop body up to the first tool execution
Chat(w, r) ==
  /\ pc[w] = "chat"
  /\ respLog' = [respLog EXCEPT ![w] = Append(@, r)]
  /\ IF ChatFailed(r)
     THEN /\ turnErr' = [turnErr EXCEPT ![w] = TRUE]
          /\ response' = [response EXCEPT ![w] = ""]
          /\ pc' = [pc EXCEPT ![w] = "ret"]
          /\ UNCHANGED <<messages, pending>>
     ELSE IF Len(r.ToolCalls) = 0
     THEN /\ response' = [response EXCEPT ![w] = ReturnedContent(r)]
          /\ pc' = [pc EXCEPT ![w] = "ret"]
          /\ UNCHANGED <<messages, pending, turnErr>>
     ELSE /\ messages' = [messages EXCEPT ![w] = Append(@, AssistantMessage(r))]
          /\ pending' = [pending EXCEPT ![w] = r.ToolCalls]
          /\ pc' = [pc EXCEPT ![w] = "tool"]
          /\ UNCHANGED <<response, turnErr>>
  /\ UNCHANGED <<ctlVars, busVars, sessVars, cur, iter, baseLen, executed, turnLog, rlVars, edgeVars>>

\* one pass of the inner range loop: the next tool call is executed with
\* outcome o and its result appended; after the last one, i++ and the test
ExecTool(w, o) ==
  /\ pc[w] = "tool"
  /\ LET tc == Head(pending[w])
         rest == Tail(pending[w])
     IN  /\ o \in RegistryExecute(tc.Name)
         /\ messages' = [messages EXCEPT ![w] = Append(@, ToolResultMessage(tc, o))]
         /\ executed' = [executed EXCEPT ![w] = Append(@, tc.ID)]
         /\ pending' = [pending EXCEPT ![w] = rest]
         /\ IF rest # <<>>
            THEN UNCHANGED <<iter, pc, response>>
            ELSE /\ iter' = [iter EXCEPT ![w] = @ + 1]
                 /\ IF LoopTest(iter[w] + 1)
                    THEN /\ pc' = [pc EXCEPT ![w] = "chat"]
                         /\ UNCHANGED response
                    ELSE /\ pc' = [pc EXCEPT ![w] = "ret"]
                         /\ response' = [response EXCEPT ![w] = MaxIterationsMessage]
  /\ UNCHANGED <<ctlVars, busVars, sessVars, cur, turnErr, baseLen, respLog, turnLog, rlVars, edgeVars>>

\* (a ProcessDirect that takes the user message back when the turn fails)
ProcessDirectTailRollsBack(w) ==
  IF turnErr[w]
  THEN [sessions EXCEPT ![cur[w].key] = SubSeq(@, 1, Len(@) - 1)]
  ELSE AddMessage(sessions, cur[w].key, "assistant", response[w])

\* (a ProcessDirect that records the loop's own messages with the reply)
ProcessDirectTailWithTrace(w) ==
  IF turnErr[w] THEN sessions
  ELSE LET key == cur[w].key
           trace == SubSeq(messages[w], baseLen[w] + 1, Len(messages[w]))
           store == [sessions EXCEPT ![key] =
                       @ \o [j \in 1..Len(trace) |->
                               [Role |-> trace[j].Role, Content |-> trace[j].Content]]]
       IN  AddMessage(store, key, "assistant", response[w])

\* (a ProcessDirect that does not record the reply)
ProcessDirectTailNoReply(w) == sessions

\* ProcessDirect after runAgentLoop has returned: the session store it leaves
ProcessDirectTail(w) ==
  IF turnErr[w] THEN sessions
  ELSE AddMessage(sessions, cur[w].key, "assistant", response[w])

\* Manager.Save(sess) at the end of a successful turn
SaveAfter(w, store) ==
  IF turnErr[w] THEN saved
  ELSE [k \in DOMAIN saved \cup {cur[w].key} |->
          IF k = cur[w].key THEN store[k] ELSE saved[k]]

\* runAgentLoop has returned: its locals are gone
EndTurn(w) ==
  /\ messages' = [messages EXCEPT ![w] = <<>>]
  /\ iter' = [iter EXCEPT ![w] = 0]
  /\ pending' = [pending EXCEPT ![w] = <<>>]
  /\ baseLen' = [baseLen EXCEPT ![w] = 0]
  /\ respLog' = [respLog EXCEPT ![w] = <<>>]
  /\ executed' = [executed EXCEPT ![w] = <<>>]

\* ------------------------------------------------------------- direct path
DirectKeys == { <<"a", ":", "b">>, <<"a">> }

\* a caller outside Run (the command line, the /chat handler) calls ProcessDirect
DirectCall(content, key) ==
  /\ pc["direct"] = "idle"
  /\ directCalls' = directCalls + 1
  /\ BeginTurn("direct", [Channel |-> <<>>, ChatID |-> <<>>, Content |-> content, id |-> 0], key)
  /\ UNCHANGED <<maxIterations, running, cancelled, dispatcher, busVars, saved, turnLog, rlVars, edgeVars>>

\* ProcessDirect returns to that caller
DirectReturn ==
  /\ pc["direct"] = "ret"
  /\ LET store == ProcessDirectTail("direct")
     IN  /\ sessions' = store
         /\ saved' = SaveAfter("direct", store)
  /\ pc' = [pc EXCEPT !["direct"] = "idle"]
  /\ EndTurn("direct")
  /\ UNCHANGED <<ctlVars, busVars, cur, response, turnErr, turnLog, rlVars, edgeVars>>

\* ---------------------------------------------------------------- the bus
\* MessageBus.Subscribe(channel, callback), during gateway set-up
Subscribe(c) ==
  /\ dispatcher = "init"
  /\ Cardinality(DOMAIN delivered) < MaxSubs
  /\ LET s == Cardinality(DOMAIN delivered) + 1
     IN  /\ subs' = [subs EXCEPT ![c] = Append(@, s)]
         /\ delivered' = [t \in DOMAIN delivered \cup {s} |->
                            IF t = s THEN <<>> ELSE delivered[t]]
  /\ UNCHANGED <<ctlVars, inbound, outbound, published, sessVars, turnVars, turnLog, rlVars, edgeVars>>

\* go msgBus.DispatchOutbound(ctx)
StartDispatch ==
  /\ dispatcher = "init"
  /\ dispatcher' = "running"
  /\ UNCHANGED <<maxIterations, running, cancelled, directCalls, busVars, sessVars,
                 turnVars, turnLog, rlVars, edgeVars>>

\* MessageBus.PublishInbound(msg), by a channel adapter
PublishInbound(c, chat, content) ==
  /\ published < MaxInbound
  /\ Len(inbound) < BusCapacity
  /\ published' = published + 1
  /\ inbound' = Append(inbound,
        [Channel |-> c, ChatID |-> chat, Content |-> content, id |-> published + 1])
  /\ UNCHANGED <<ctlVars, outbound, subs, delivered, sessVars, turnVars, turnLog, rlVars, edgeVars>>

\* one pass of DispatchOutbound's loop: the head of the outbound queue is
\* handed to every subscriber of its channel, in registration order
Deliver(d, m) ==
  [s \in DOMAIN d |->
     IF \E j \in 1..Len(subs[m.Channel]) : subs[m.Channel][j] = s
     THEN Append(d[s], m) ELSE d[s]]

Dispatch ==
  /\ dispatcher = "running"
  /\ outbound # <<>>
  /\ delivered' = Deliver(delivered, Head(outbound))
  /\ outbound' = Tail(outbound)
  /\ UNCHANGED <<ctlVars, inbound, subs, published, sessVars, turnVars, turnLog, rlVars, edgeVars>>

\* DispatchOutbound returns once the context is done
DispatchExit ==
  /\ dispatcher = "running"
  /\ cancelled
  /\ dispatcher' = "exited"
  /\ UNCHANGED <<maxIterations, running, cancelled, directCalls, busVars, sessVars,
                 turnVars, turnLog, rlVars, edgeVars>>

\* ---------------------------------------------------------------- Loop.Run
\* (a Run that publishes every reply, empty ones too)
ShouldPublishAlways(reply) == TRUE

\* (a Run that keeps every reply to itself)
ShouldPublishNever(reply) == FALSE

\* Run publishes a reply only when it is not empty
ShouldPublish(reply) == reply # ""

\* where Run goes after one pass of its loop: the test of l.running
RunLoopTest(isRunning) == IF isRunning THEN "consume" ELSE "exited"

\* (a Run that drops the turn's error)
RunResponseWithoutError(w) == response[w]

\* the text Run publishes for a turn
RunResponse(w) ==
  IF turnErr[w] THEN "Error: LLM call failed: provider error" ELSE response[w]

\* Run is started: l.running = true, then it blocks in ConsumeInbound
RunStart ==
  /\ dispatcher # "init"
  /\ pc["run"] = "init"
  /\ running' = TRUE
  /\ pc' = [pc EXCEPT !["run"] = "consume"]
  /\ UNCHANGED <<maxIterations, cancelled, dispatcher, directCalls, busVars, sessVars,
                 cur, messages, iter, pending, response, turnErr, baseLen, respLog,
                 executed, turnLog, rlVars, edgeVars>>

\* (a ConsumeInbound that hands out a message together with the error)
ConsumeInboundBoth(queue, done) ==
  (IF queue # <<>> /\ ~done
   THEN {[msg |-> Head(queue), err |-> FALSE, rest |-> Tail(queue)]} ELSE {})
  \cup (IF done /\ queue # <<>>
        THEN {[msg |-> Head(queue), err |-> TRUE, rest |-> Tail(queue)]} ELSE {})
  \cup (IF done /\ queue = <<>>
        THEN {[msg |-> NoRequest, err |-> TRUE, rest |-> queue]} ELSE {})

\* MessageBus.ConsumeInbound(ctx): what its select can return when it stops
\* blocking: the head of the queue and no error, or no message (NoRequest
\* stands for nil) and ctx.Err(); rest is the queue it leaves
ConsumeInbound(queue, done) ==
  (IF queue # <<>>
   THEN {[msg |-> Head(queue), err |-> FALSE, rest |-> Tail(queue)]} ELSE {})
  \cup (IF done THEN {[msg |-> NoRequest, err |-> TRUE, rest |-> queue]} ELSE {})

\* ConsumeInbound returns a message; processMessage starts the turn
RunConsume ==
  /\ pc["run"] = "consume"
  /\ \E o \in ConsumeInbound(inbound, cancelled) :
       /\ ~o.err
       /\ inbound' = o.rest
       /\ BeginTurn("run", o.msg, SessionKeyOf(o.msg.Channel, o.msg.ChatID))
  /\ UNCHANGED <<ctlVars, outbound, subs, delivered, published, saved, turnLog, rlVars, edgeVars>>

\* ConsumeInbound returns an error: Run returns nil when ctx.Err() != nil,
\* and goes back to ConsumeInbound otherwise
RunCancelled ==
  /\ pc["run"] = "consume"
  /\ \E o \in ConsumeInbound(inbound, cancelled) :
       /\ o.err
       /\ inbound' = o.rest
  /\ pc' = [pc EXCEPT !["run"] = IF cancelled THEN "exited" ELSE "consume"]
  /\ UNCHANGED <<ctlVars, outbound, subs, delivered, published, sessVars, cur, messages, iter,
                 pending, response, turnErr, baseLen, respLog, executed, turnLog, rlVars,
                 edgeVars>>

\* processMessage returns to Run: the session is updated, the reply chosen
RunFinish ==
  /\ pc["run"] = "ret"
  /\ LET store == ProcessDirectTail("run")
         reply == RunResponse("run")
     IN  /\ sessions' = store
         /\ saved' = SaveAfter("run", store)
         /\ response' = [response EXCEPT !["run"] = reply]
         /\ turnLog' = Append(turnLog,
               [id |-> cur["run"].id, Channel |-> cur["run"].Channel,
                ChatID |-> cur["run"].ChatID, reply |-> reply])
         /\ pc' = [pc EXCEPT !["run"] =
                     IF ShouldPublish(reply) THEN "publish" ELSE RunLoopTest(running)]
  /\ EndTurn("run")
  /\ UNCHANGED <<ctlVars, busVars, cur, turnErr, rlVars, edgeVars>>

\* (a Run that answers on the channel's first chat)
OutboundForFirstChat(w) ==
  [Channel |-> cur[w].Channel, ChatID |-> <<"1">>, Content |-> response[w],
   re |-> cur[w].id]

\* the OutboundMessage Run builds for the turn
OutboundFor(w) ==
  [Channel |-> cur[w].Channel, ChatID |-> cur[w].ChatID, Content |-> response[w],
   re |-> cur[w].id]

\* PublishOutbound takes the reply (it waits while the queue is full)
RunPublish ==
  /\ pc["run"] = "publish"
  /\ Len(outbound) < BusCapacity
  /\ outbound' = Append(outbound, OutboundFor("run"))
  /\ pc' = [pc EXCEPT !["run"] = RunLoopTest(running)]
  /\ UNCHANGED <<ctlVars, inbound, subs, delivered, published, sessVars, cur, messages,
                 iter, pending, response, turnErr, baseLen, respLog, executed, turnLog,
                 rlVars, edgeVars>>

\* Loop.Stop
Stop ==
  /\ pc["run"] # "init"
  /\ running
  /\ running' = FALSE
  /\ UNCHANGED <<maxIterations, cancelled, dispatcher, directCalls, busVars, sessVars,
                 turnVars, turnLog, rlVars, edgeVars>>

\* the gateway's context is cancelled
Cancel ==
  /\ dispatcher # "init"
  /\ ~cancelled
  /\ cancelled' = TRUE
  /\ UNCHANGED <<maxIterations, running, dispatcher, directCalls, busVars, sessVars,
                 turnVars, turnLog, rlVars, edgeVars>>

\* ------------------------------------------------------------- clientIPKey
Unknown == <<"u", "n", "k", "n", "o", "w", "n">>

\* strings.TrimSpace
RECURSIVE TrimLeft(_)
TrimLeft(s) == IF s # <<>> /\ Head(s) = " " THEN TrimLeft(Tail(s)) ELSE s

RECURSIVE TrimRight(_)
TrimRight(s) ==
  IF s # <<>> /\ s[Len(s)] = " " THEN TrimRight(SubSeq(s, 1, Len(s) - 1)) ELSE s

TrimSpace(s) == TrimRight(TrimLeft(s))

\* strings.Split(s, ",")[0]
FirstPart(s) ==
  LET i == IndexOf(s, ",")
  IN  IF i = 0 THEN s ELSE SubSeq(s, 1, i - 1)

\* net.SplitHostPort: [ok, host, port]
SplitHostPort(hostport) ==
  LET n == Len(hostport)
      i == LastIndexOf(hostport, ":")
      fail == [ok |-> FALSE, host |-> <<>>, port |-> <<>>]
      rest(from) == SubSeq(hostport, from, n)
      finish(host, j, k) ==
        IF IndexOf(rest(j), "[") # 0 THEN fail
        ELSE IF IndexOf(rest(k), "]") # 0 THEN fail
        ELSE [ok |-> TRUE, host |-> host, port |-> rest(i + 1)]
  IN  IF i = 0 THEN fail
      ELSE IF hostport[1] = "["
      THEN LET end == IndexOf(hostport, "]")
           IN  IF end = 0 THEN fail
               ELSE IF end = n THEN fail
               ELSE IF end + 1 # i THEN fail
               ELSE finish(SubSeq(hostport, 2, end - 1), 2, end + 2)
      ELSE LET host == SubSeq(hostport, 1, i - 1)
           IN  IF IndexOf(host, ":") # 0 THEN fail
               ELSE finish(host, 1, 1)

clientIPKey(r) ==
  LET ip == TrimSpace(FirstPart(r.xff))
      hp == SplitHostPort(r.remote)
  IN  IF r.xff # <<>> /\ ip # <<>> THEN ip
      ELSE IF r.rip # <<>> THEN TrimSpace(r.rip)
      ELSE IF hp.ok /\ hp.host # <<>> THEN hp.host
      ELSE IF r.remote # <<>> THEN r.remote
      ELSE Unknown

\* ------------------------------------------------------------ RateLimiter
IdleWindow == IdleWindowSeconds * TicksPerSecond
OneToken == TicksPerSecond

\* (a constructor that keeps the arguments as given)
NewRateLimiterAsGiven(r, b) == [rps |-> r, burst |-> b]

\* NewRateLimiter(rps, burst): the fields it sets
NewRateLimiter(r, b) ==
  [rps |-> IF r <= 0 THEN DefaultRPS ELSE r,
   burst |-> IF b <= 0 THEN DefaultBurst ELSE b]

Min(a, b) == IF a < b THEN a ELSE b

\* the bucket allow works on: the key's own, or a new one at full burst
BucketFor(key) ==
  IF key \in DOMAIN buckets THEN buckets[key]
  ELSE [tokens |-> burst * OneToken, last |-> now, lastHit |-> now]

\* len(rl.buckets) at the cleanup test, the caller's bucket included
TableSize(key) ==
  Cardinality(DOMAIN buckets \cup {key}) + BagCardinality(others)

\* the cleanup test and the eviction test of one bucket
NeedsCleanup(size) == size > CleanupThreshold
\* (an eviction test that also takes a bucket hit exactly ten minutes ago)
IsIdleInclusive(lastHit) == now - lastHit >= IdleWindow

IsIdle(lastHit) == now - lastHit > IdleWindow

\* the other clients' buckets that survive a cleanup
KeepFresh(bag) ==
  LET keep == { t \in BagToSet(bag) : ~IsIdle(t) }
  IN  [t \in keep |-> bag[t]]

\* (a refill that forgets the cap)
RefillUncapped(b) ==
  LET elapsed == now - b.last
  IN  IF elapsed > 0
      THEN [b EXCEPT !.tokens = b.tokens + elapsed * rps, !.last = now]
      ELSE b

\* refill: tokens after adding elapsed * rps, capped at burst
Refill(b) ==
  LET elapsed == now - b.last
  IN  IF elapsed > 0
      THEN [b EXCEPT !.tokens = Min(b.tokens + elapsed * rps, burst * OneToken),
                     !.last = now]
      ELSE b

\* the test that lets a request through
HasToken(b) == ~(b.tokens < OneToken)

\* (a request that is counted without paying its token)
TakeNothing(b) == [b EXCEPT !.lastHit = now]

\* b after the request was counted
Take(b) == [b EXCEPT !.tokens = IF HasToken(b) THEN b.tokens - OneToken ELSE b.tokens,
                     !.lastHit = now]

\* RateLimiter.allow(key): [allowed, buckets, others] and what it saw
AllowResult(key) ==
  LET fresh == key \notin DOMAIN buckets
      b0 == BucketFor(key)
      table == [k \in DOMAIN buckets \cup {key} |-> IF k = key THEN b0 ELSE buckets[k]]
      size == TableSize(key)
      clean == NeedsCleanup(size)
      kept == IF clean THEN { k \in DOMAIN table : ~IsIdle(table[k].lastHit) }
              ELSE DOMAIN table
      b1 == Refill(b0)
  IN  [allowed |-> HasToken(b1),
       buckets |-> [k \in kept |-> IF k = key THEN Take(b1) ELSE table[k]],
       others |-> IF clean THEN KeepFresh(others) ELSE others,
       fresh |-> fresh, created |-> b0.tokens, size |-> size, cleaned |-> clean]

NoMon == [phase |-> 0, t0 |-> 0, n1 |-> 0, a1 |-> 0, n2 |-> 0, a2 |-> 0, at |-> 0, c |-> 0]

\* the monitor of a key's first burst and of the burst one second later
MonStep(m, allowed) ==
  LET inc == IF allowed THEN 1 ELSE 0
      c == IF m.phase # 0 /\ m.at = now THEN m.c + 1 ELSE 1
  IN  IF m.phase = 0
      THEN [phase |-> 1, t0 |-> now, n1 |-> 1, a1 |-> inc, n2 |-> 0, a2 |-> 0, at |-> now, c |-> c]
      ELSE IF m.phase = 1 /\ now = m.t0
      THEN [m EXCEPT !.n1 = @ + 1, !.a1 = @ + inc, !.at = now, !.c = c]
      ELSE IF m.phase \in {1, 2} /\ now = m.t0 + TicksPerSecond
      THEN [m EXCEPT !.phase = 2, !.n2 = @ + 1, !.a2 = @ + inc, !.at = now, !.c = c]
      ELSE [NoMon EXCEPT !.phase = 3, !.at = now, !.c = c]

CallsNow(key) == IF mon[key].phase # 0 /\ mon[key].at = now THEN mon[key].c ELSE 0

\* the requests sent through the middleware
RLRequests ==
  { [xff |-> <<>>, rip |-> <<>>, remote |-> <<"a", ":", "1">>],
    [xff |-> <<"b", ",", "a">>, rip |-> <<>>, remote |-> <<"a", ":", "1">>] }

RLKeys == { clientIPKey(r) : r \in RLRequests }

\* the client whose bursts are explored in full, and the calls per instant
\* explored for each key
BurstClient == <<"a">>
CallCap(key) == IF key = BurstClient THEN MaxCallsPerInstant ELSE OtherCallsPerInstant

\* RateLimiter.Middleware: the handler it returns, serving request r
\* [status, nextCalls]: the status written and how often next.ServeHTTP ran
\* (a handler that goes on to the next handler after it answered 429)
RespondFallsThrough(allowed) ==
  IF ~allowed THEN [status |-> StatusTooManyRequests, nextCalls |-> 1]
  ELSE [status |-> StatusOK, nextCalls |-> 1]

Respond(allowed) ==
  IF ~allowed THEN [status |-> StatusTooManyRequests, nextCalls |-> 0]
  ELSE [status |-> StatusOK, nextCalls |-> 1]

Middleware(r) ==
  \E key \in {clientIPKey(r)} :
    \E res \in {AllowResult(key)} :
      \E out \in {Respond(res.allowed)} :
        /\ CallsNow(key) < CallCap(key)
        /\ buckets' = res.buckets
        /\ others' = res.others
        /\ lastReq' = [key |-> key, time |-> now, fresh |-> res.fresh,
                       created |-> res.created, allowed |-> res.allowed,
                       size |-> res.size, cleaned |-> res.cleaned,
                       status |-> out.status, nextCalls |-> out.nextCalls]
        /\ mon' = [mon EXCEPT ![key] = MonStep(@, res.allowed)]
        /\ UNCHANGED <<rps, burst, now, ctorArgs, advances, keyReq, keyOut, agentVars, edgeVars>>

\* time passes
Advance(d) ==
  /\ advances < MaxAdvances
  /\ advances' = advances + 1
  /\ now' = now + d
  /\ UNCHANGED <<rps, burst, buckets, others, lastReq, mon, ctorArgs, keyReq, keyOut,
                 agentVars, edgeVars>>

\* a request of a client that is not followed: its key is new to the table
OtherKey == <<"o", "t", "h", "e", "r">>

MiddlewareOther ==
  LET size == Cardinality(DOMAIN buckets) + BagCardinality(others) + 1
      clean == NeedsCleanup(size)
      kept == IF clean THEN { k \in DOMAIN buckets : ~IsIdle(buckets[k].lastHit) }
              ELSE DOMAIN buckets
      b1 == Take(Refill([tokens |-> burst * OneToken, last |-> now, lastHit |-> now]))
      out == Respond(HasToken(Refill([tokens |-> burst * OneToken, last |-> now, lastHit |-> now])))
  IN  /\ size >= CleanupThreshold
      /\ size <= CleanupThreshold + 1
      /\ buckets' = [k \in kept |-> buckets[k]]
      /\ others' = (IF clean THEN KeepFresh(others) ELSE others) (+) SetToBag({now})
      /\ lastReq' = [key |-> OtherKey, time |-> now, fresh |-> TRUE,
                     created |-> burst * OneToken, allowed |-> out.nextCalls = 1,
                     size |-> size, cleaned |-> clean,
                     status |-> out.status, nextCalls |-> out.nextCalls]
      /\ UNCHANGED <<rps, burst, now, mon, ctorArgs, advances, keyReq, keyOut, agentVars, edgeVars>>

\* n clients that are not followed send their first request at this instant,
\* none of them finding the table above the threshold
OthersArrive(n) ==
  /\ n > 0
  /\ others = EmptyBag
  /\ Cardinality(DOMAIN buckets) + n <= CleanupThreshold
  /\ others' = [t \in {now} |-> n]
  /\ lastReq' = [key |-> OtherKey, time |-> now, fresh |-> TRUE,
                 created |-> burst * OneToken, allowed |-> TRUE,
                 size |-> Cardinality(DOMAIN buckets) + n, cleaned |-> FALSE,
                 status |-> StatusOK, nextCalls |-> 1]
  /\ UNCHANGED <<rps, burst, buckets, now, mon, ctorArgs, advances, keyReq, keyOut,
                 agentVars, edgeVars>>

\* clientIPKey(r) is called
ComputeKey ==
  /\ keyOut = <<"none">>
  /\ keyOut' = clientIPKey(keyReq)
  /\ UNCHANGED <<agentVars, limVars, keyReq, edgeVars>>

\* ----------------------------------------------------------- httpmw.Chain
\* a handler is the list of its layers, the outermost first; mw(next) puts
\* mw in front of next
Wrap(mw, next) == <<mw>> \o next

RECURSIVE ChainLoop(_, _, _)
\* for i := len(mws) - 1; i >= 0; i-- { h = mws[i](h) }
ChainLoop(h, mws, i) ==
  IF i >= 1 THEN ChainLoop(Wrap(mws[i], h), mws, i - 1) ELSE h

RECURSIVE ChainForward(_, _, _)
ChainForward(h, mws, i) ==
  IF i <= Len(mws) THEN ChainForward(Wrap(mws[i], h), mws, i + 1) ELSE h

\* (a Chain that applies the middleware from the first to the last)
ChainInnermostFirst(h, mws) == ChainForward(h, mws, 1)

Chain(h, mws) == ChainLoop(h, mws, Len(mws))

\* runGateway: commonMW and the API server's handler
commonMW == <<"Recoverer", "MaxBodyBytes", "RateLimiter">>
apiHandler == Chain(<<"apiMux">>, commonMW)

\* where layer name sits in handler h, 0 when it is not part of it
Pos(h, name) ==
  IF \E i \in 1..Len(h) : h[i] = name
  THEN CHOOSE i \in 1..Len(h) : h[i] = name /\ \A j \in 1..(i - 1) : h[j] # name
  ELSE 0

\* the layers of h a request runs through: every middleware runs and then
\* calls next, except the rate limiter when it denies the request
Entered(h, allowed) ==
  IF Pos(h, "RateLimiter") # 0 /\ ~allowed THEN SubSeq(h, 1, Pos(h, "RateLimiter"))
  ELSE h

\* (a Recoverer whose deferred function lets the panic go on)
RecovererRepanics(h, layer) == FALSE

\* Recoverer: a panic in layer is recovered when Recoverer ran before it
Recovered(h, layer) == Pos(h, "Recoverer") # 0 /\ Pos(h, "Recoverer") < Pos(h, layer)

\* what the client gets for a request whose handler panicked: Recoverer's
\* http.Error, or a closed connection from net/http's own recovery
PanicResponse(h, layer) ==
  IF Recovered(h, layer)
  THEN [status |-> StatusInternalServerError, body |-> "internal server error"]
  ELSE [status |-> 0, body |-> ""]

\* ------------------------------------------------- runGateway: API server
LocalDefault == <<"l", "o", "c", "a", "l", ":", "d", "e", "f", "a", "u", "l", "t">>

\* the requests sent to the API server
HttpRequests ==
  LET a == [xff |-> <<>>, rip |-> <<>>, remote |-> <<"a", ":", "1">>]
      b == [xff |-> <<"b", ",", "a">>, rip |-> <<>>, remote |-> <<"a", ":", "1">>]
      r(m, p, msg, sess, hdr) ==
        [method |-> m, path |-> p, message |-> msg, session |-> sess, hdr |-> hdr]
  IN  { r("GET", "/health", "", <<>>, a), r("GET", "/health", "", <<>>, b),
        r("GET", "/ready", "", <<>>, a),
        r("POST", "/chat", "hi", <<>>, a),
        r("GET", "/chat", "hi", <<>>, a), r("POST", "/chat", "", <<>>, a),
        r("GET", "/settings", "", <<>>, a) }

\* the /health handler
HealthHandler == [status |-> StatusOK, body |-> "ok"]

\* (a /ready handler that does not look at the flag)
ReadyHandlerAlwaysReady == [status |-> StatusOK, body |-> "ready"]

\* the /ready handler
ReadyHandler ==
  IF ready = 1 THEN [status |-> StatusOK, body |-> "ready"]
  ELSE [status |-> StatusServiceUnavailable, body |-> "not ready"]

\* the /chat handler up to the call of ProcessDirect: the response it ends
\* with, or "call" when it goes on
ChatChecks(req) ==
  IF req.method # "POST"
  THEN [status |-> StatusMethodNotAllowed, body |-> "method not allowed"]
  ELSE IF req.message = ""
  THEN [status |-> StatusBadRequest, body |-> "missing message parameter"]
  ELSE [status |-> 0, body |-> "call"]

ChatSession(req) == IF req.session = <<>> THEN LocalDefault ELSE req.session

\* (a /chat handler that answers with the error's text)
ChatResultLeaky(failed, text) ==
  IF failed
  THEN [status |-> StatusInternalServerError, body |-> "LLM call failed: provider error"]
  ELSE [status |-> StatusOK, body |-> text]

\* the /chat handler after ProcessDirect returned
ChatResult(failed, text) ==
  IF failed
  THEN [status |-> StatusInternalServerError, body |-> "internal server error"]
  ELSE [status |-> StatusOK, body |-> text]

\* apiMux: the handler of the request's path answers; "call" when it is
\* the /chat handler about to call ProcessDirect
MuxResponse(req) ==
  IF req.path = "/health" THEN HealthHandler
  ELSE IF req.path = "/ready" THEN ReadyHandler
  ELSE IF req.path = "/chat" THEN ChatChecks(req)
  ELSE [status |-> StatusNotFound, body |-> "404 page not found"]

NoHttp ==
  [n |-> 0, method |-> "", path |-> "", key |-> <<>>, allowed |-> FALSE, trace |-> <<>>,
   status |-> 0, body |-> "", panicked |-> FALSE, failed |-> FALSE, ready |-> 0]

NoInflight == [n |-> 0, key |-> <<>>, trace |-> <<>>]

\* the rate limiter's part of a request: allow(key) with result res
Admit(key, res) ==
  /\ buckets' = res.buckets
  /\ others' = res.others
  /\ lastReq' = [key |-> key, time |-> now, fresh |-> res.fresh,
                 created |-> res.created, allowed |-> res.allowed,
                 size |-> res.size, cleaned |-> res.cleaned,
                 status |-> Respond(res.allowed).status,
                 nextCalls |-> Respond(res.allowed).nextCalls]
  /\ mon' = [mon EXCEPT ![key] = MonStep(@, res.allowed)]

\* wa.Start(ctx) returns; ready.Store(1) when it succeeded
StartChannels(ok) ==
  /\ gw = "starting"
  /\ gw' = "started"
  /\ ready' = IF ok THEN 1 ELSE ready
  /\ waStart' = IF ok THEN "ok" ELSE "failed"
  /\ UNCHANGED <<inflight, lastHttp, panics, httpCount, execVars, callVars, downVars, lockVars, agentVars, rlVars>>

\* go apiServer.ListenAndServe()
Listen ==
  /\ gw = "started"
  /\ gw' = "serving"
  /\ UNCHANGED <<ready, waStart, inflight, lastHttp, panics, httpCount, execVars, callVars, downVars, lockVars,
                 agentVars, rlVars>>

\* the API server answers a request without calling ProcessDirect
ServeRequest(req) ==
  \E key \in {clientIPKey(req.hdr)} :
    \E res \in {AllowResult(key)} :
      \E out \in {IF Entered(apiHandler, res.allowed) = apiHandler THEN MuxResponse(req)
                  ELSE [status |-> Respond(res.allowed).status,
                        body |-> "rate limit exceeded"]} :
        /\ gw = "serving"
        /\ httpCount < MaxHttpRequests
        /\ out.body # "call"
        /\ Admit(key, res)
        /\ httpCount' = httpCount + 1
        /\ lastHttp' = [n |-> httpCount + 1, method |-> req.method, path |-> req.path,
                        key |-> key, allowed |-> res.allowed,
                        trace |-> Entered(apiHandler, res.allowed),
                        status |-> out.status, body |-> out.body,
                        panicked |-> FALSE, failed |-> FALSE, ready |-> ready]
        /\ UNCHANGED <<gw, ready, waStart, inflight, panics, execVars, callVars, downVars, lockVars, agentVars,
                       rps, burst, now, ctorArgs, advances, keyReq, keyOut>>

\* the /chat handler calls loop.ProcessDirect(ctx, msg, session)
ChatBegin(req) ==
  \E key \in {clientIPKey(req.hdr)} :
    \E res \in {AllowResult(key)} :
      /\ gw = "serving"
      /\ httpCount < MaxHttpRequests
      /\ inflight = NoInflight
      /\ pc["direct"] = "idle"
      /\ Entered(apiHandler, res.allowed) = apiHandler
      /\ MuxResponse(req).body = "call"
      /\ Admit(key, res)
      /\ httpCount' = httpCount + 1
      /\ inflight' = [n |-> httpCount + 1, key |-> key, trace |-> apiHandler]
      /\ directCalls' = directCalls + 1
      /\ BeginTurn("direct",
                   [Channel |-> <<>>, ChatID |-> <<>>, Content |-> req.message, id |-> 0],
                   ChatSession(req))
      /\ UNCHANGED <<gw, ready, waStart, lastHttp, panics, execVars, callVars, downVars, lockVars,
                     maxIterations, running, cancelled, dispatcher, busVars, saved, turnLog,
                     rps, burst, now, ctorArgs, advances, keyReq, keyOut>>

\* ProcessDirect returns to the /chat handler, which answers
ChatEnd ==
  /\ inflight # NoInflight
  /\ pc["direct"] = "ret"
  /\ LET store == ProcessDirectTail("direct")
         out == ChatResult(turnErr["direct"], response["direct"])
     IN  /\ sessions' = store
         /\ saved' = SaveAfter("direct", store)
         /\ lastHttp' = [n |-> inflight.n, method |-> "POST", path |-> "/chat",
                         key |-> inflight.key, allowed |-> TRUE, trace |-> inflight.trace,
                         status |-> out.status, body |-> out.body,
                         panicked |-> FALSE, failed |-> turnErr["direct"],
                         ready |-> ready]
  /\ inflight' = NoInflight
  /\ pc' = [pc EXCEPT !["direct"] = "idle"]
  /\ EndTurn("direct")
  /\ UNCHANGED <<gw, ready, waStart, panics, httpCount, execVars, callVars, downVars, lockVars, ctlVars, busVars, cur,
                 response, turnErr, turnLog, rlVars>>

\* something ProcessDirect calls panics: the stack unwinds to Recoverer
ChatPanic ==
  /\ inflight # NoInflight
  /\ pc["direct"] \in {"chat", "tool"}
  /\ panics < MaxPanics
  /\ panics' = panics + 1
  /\ LET out == PanicResponse(inflight.trace, "apiMux")
     IN  lastHttp' = [n |-> inflight.n, method |-> "POST", path |-> "/chat",
                      key |-> inflight.key, allowed |-> TRUE, trace |-> inflight.trace,
                      status |-> out.status, body |-> out.body,
                      panicked |-> TRUE, failed |-> FALSE, ready |-> ready]
  /\ inflight' = NoInflight
  /\ pc' = [pc EXCEPT !["direct"] = "idle"]
  /\ EndTurn("direct")
  /\ UNCHANGED <<gw, ready, waStart, httpCount, execVars, callVars, downVars, lockVars, ctlVars, busVars, sessVars, cur,
                 response, turnErr, turnLog, rlVars>>

\* ---------------------------------------------------------- initial states
NoReq ==
  [key |-> <<>>, time |-> 0, fresh |-> FALSE, created |-> 0, allowed |-> FALSE,
   size |-> 0, cleaned |-> FALSE, status |-> 0, nextCalls |-> 0]

AgentInit(opts) ==
  /\ maxIterations \in { NewLoopMaxIter(opt) : opt \in opts }
  /\ running = FALSE
  /\ cancelled = FALSE
  /\ dispatcher = "init"
  /\ inbound = <<>>
  /\ outbound = <<>>
  /\ subs = [c \in ChannelNames |-> <<>>]
  /\ delivered = <<>>
  /\ sessions = <<>>
  /\ saved = <<>>
  /\ pc = [w \in Workers |-> IF w = "run" THEN "init" ELSE "idle"]
  /\ cur = [w \in Workers |-> NoRequest @@ [key |-> <<>>]]
  /\ messages = [w \in Workers |-> <<>>]
  /\ iter = [w \in Workers |-> 0]
  /\ pending = [w \in Workers |-> <<>>]
  /\ response = [w \in Workers |-> ""]
  /\ turnErr = [w \in Workers |-> FALSE]
  /\ baseLen = [w \in Workers |-> 0]
  /\ respLog = [w \in Workers |-> <<>>]
  /\ executed = [w \in Workers |-> <<>>]
  /\ turnLog = <<>>
  /\ published = 0
  /\ directCalls = 0

LimiterInit(rpsArgs, burstArgs) ==
  /\ ctorArgs \in rpsArgs \X burstArgs
  /\ rps = NewRateLimiter(ctorArgs[1], ctorArgs[2]).rps
  /\ burst = NewRateLimiter(ctorArgs[1], ctorArgs[2]).burst
  /\ buckets = <<>>
  /\ others = EmptyBag
  /\ now = 0
  /\ lastReq = NoReq
  /\ mon = [k \in RLKeys |-> NoMon]
  /\ advances = 0

KeyInit(reqs) ==
  /\ keyReq \in reqs
  /\ keyOut = <<"none">>

\* runGateway before it starts the channels
HttpInit ==
  /\ gw = "starting"
  /\ ready = 0
  /\ waStart = "none"
  /\ inflight = NoInflight
  /\ lastHttp = NoHttp
  /\ panics = 0
  /\ httpCount = 0

NoExecOut == [result |-> <<"none">>, err |-> FALSE]

NoProc ==
  [command |-> <<>>, Dir |-> <<>>,
   outcome |-> [run |-> "none", code |-> 0, ctx |-> "none", stdout |-> <<>>, stderr |-> <<>>]]

\* NewExecTool(timeout, restrictToWorkspace, workDir)
ExecInit(cfgs, ins, dirs) ==
  /\ execCfg \in cfgs
  /\ execIn \in ins
  /\ execOut = NoExecOut
  /\ cwd \in dirs
  /\ lastProc = NoProc
  /\ spawned = 0

\* no function applied yet
NoCall == [fn |-> "none"]

LockInit ==
  /\ mu = 0
  /\ apc = [c \in Callers |-> "idle"]
  /\ aloc = [c \in Callers |-> 0]
  /\ aret = [c \in Callers |-> "none"]

DownInit ==
  /\ deadline = 0
  /\ dashBusy = FALSE
  /\ downLog = <<>>

CallInit(ins) ==
  /\ callIn \in ins
  /\ callOut = NoCall

NoExecCfg == [Timeout |-> 0, RestrictToWorkspace |-> TRUE, WorkDir |-> <<>>]
NoExecIn == [command |-> <<>>]

NoKeyReq == [xff |-> <<>>, rip |-> <<>>, remote |-> <<>>]

\* ----------------------------------------------------- the bus-driven loop
\* the provider responses explored with the bus: a final answer, an empty
\* final answer, one tool call, an error
BusResponses ==
  { r \in ChatResponses :
      \/ r.ToolCalls = <<>>
      \/ r.Content = "" /\ r.ToolCalls = <<[ID |-> "c1", Name |-> "read_file"]>> }

\* the configured maxToolIterations explored with the bus
BusIterOpts == {2}

Init ==
  /\ AgentInit(BusIterOpts)
  /\ LimiterInit({DefaultRPS}, {DefaultBurst})
  /\ KeyInit({NoKeyReq})
  /\ HttpInit
  /\ ExecInit({NoExecCfg}, {NoExecIn}, {<<"/">>})
  /\ CallInit({NoCall})
  /\ DownInit
  /\ LockInit

Next ==
  \/ \E c \in ChannelNames : Subscribe(c)
  \/ StartDispatch
  \/ \E c \in ChannelNames, chat \in ChatIDs, content \in UserContents :
       PublishInbound(c, chat, content)
  \/ RunStart
  \/ RunConsume
  \/ RunCancelled
  \/ \E r \in BusResponses : Chat("run", r)
  \/ \E o \in [result : {"tool output", "", "Error: tool not found"}, err : BOOLEAN] :
       ExecTool("run", o)
  \/ RunFinish
  \/ RunPublish
  \/ Dispatch
  \/ DispatchExit
  \/ Stop
  \/ Cancel

Spec == Init /\ [][Next]_vars

\* ------------------------------------------------ one caller, direct turns
\* the first turn of a process: the session store is empty when it starts
InitTurn ==
  /\ AgentInit(1..MaxIterOpt)
  /\ LimiterInit({DefaultRPS}, {DefaultBurst})
  /\ KeyInit({NoKeyReq})
  /\ HttpInit
  /\ ExecInit({NoExecCfg}, {NoExecIn}, {<<"/">>})
  /\ CallInit({NoCall})
  /\ DownInit
  /\ LockInit

NextTurn ==
  \/ \E content \in UserContents, key \in DirectKeys :
       directCalls = 0 /\ DirectCall(content, key)
  \/ \E r \in ChatResponses : Chat("direct", r)
  \/ \E o \in [result : {"tool output", "", "Error: tool not found"}, err : BOOLEAN] :
       ExecTool("direct", o)
  \/ DirectReturn

SpecTurn == InitTurn /\ [][NextTurn]_vars

\* the same turns when every call of the provider and of a tool returns, and
\* ProcessDirect goes on to its end
TurnStep ==
  \/ \E r \in ChatResponses : Chat("direct", r)
  \/ \E o \in [result : {"tool output", "", "Error: tool not found"}, err : BOOLEAN] :
       ExecTool("direct", o)
  \/ DirectReturn

SpecTurnFair == InitTurn /\ [][NextTurn]_vars /\ WF_vars(TurnStep)

\* ------------------------------------------------------- the rate limiter
RpsArgs == {-1, 0, 2}
BurstArgs == {-1, 0, 1}

InitLimiter ==
  /\ AgentInit({1})
  /\ LimiterInit(RpsArgs, BurstArgs)
  /\ KeyInit({NoKeyReq})
  /\ HttpInit
  /\ ExecInit({NoExecCfg}, {NoExecIn}, {<<"/">>})
  /\ CallInit({NoCall})
  /\ DownInit
  /\ LockInit

NextLimiter ==
  \/ \E r \in RLRequests : Middleware(r)
  \/ \E d \in {1, TicksPerSecond} : Advance(d)

SpecLimiter == InitLimiter /\ [][NextLimiter]_vars

\* the cleanup of the bucket table
InitCleanup ==
  /\ AgentInit({1})
  /\ LimiterInit({DefaultRPS}, {DefaultBurst})
  /\ KeyInit({NoKeyReq})
  /\ HttpInit
  /\ ExecInit({NoExecCfg}, {NoExecIn}, {<<"/">>})
  /\ CallInit({NoCall})
  /\ DownInit
  /\ LockInit

NextCleanup ==
  \/ \E r \in RLRequests :
       CallsNow(clientIPKey(r)) < OtherCallsPerInstant /\ Middleware(r)
  \/ MiddlewareOther
  \/ \E n \in {CleanupThreshold - 1, CleanupThreshold} :
       OthersArrive(n - Cardinality(DOMAIN buckets))
  \/ \E d \in {IdleWindow, IdleWindow + 1} : Advance(d)

SpecCleanup == InitCleanup /\ [][NextCleanup]_vars

\* the same traffic on a limiter with a burst of one
InitEvict ==
  /\ AgentInit({1})
  /\ LimiterInit({DefaultRPS}, {1})
  /\ KeyInit({NoKeyReq})
  /\ HttpInit
  /\ ExecInit({NoExecCfg}, {NoExecIn}, {<<"/">>})
  /\ CallInit({NoCall})
  /\ DownInit
  /\ LockInit

SpecEvict == InitEvict /\ [][NextCleanup]_vars

\* ------------------------------------------- allow, called concurrently
\* (a mutex that never makes a caller wait)
CanLockAlways(holder) == TRUE

\* rl.mu.Lock() goes through when nobody holds the mutex
CanLock(holder) == holder = 0

\* allow(key) is called: now := time.Now(), and the caller reaches rl.mu.Lock()
AllowEnter(c) ==
  /\ apc[c] = "idle"
  /\ apc' = [apc EXCEPT ![c] = "lock"]
  /\ UNCHANGED <<mu, aloc, aret, agentVars, rlVars, httpVars, execVars, callVars, downVars>>

\* rl.mu.Lock() returns
AllowLock(c) ==
  /\ apc[c] = "lock"
  /\ CanLock(mu)
  /\ mu' = c
  /\ apc' = [apc EXCEPT ![c] = "load"]
  /\ UNCHANGED <<aloc, aret, agentVars, rlVars, httpVars, execVars, callVars, downVars>>

\* allow from b := rl.buckets[key] to the test of b.tokens: the bucket is
\* found or created, refilled and stamped; the table is below the cleanup
\* threshold
AllowLoad(c, key) ==
  /\ apc[c] = "load"
  /\ ~NeedsCleanup(TableSize(key))
  /\ LET b == [Refill(BucketFor(key)) EXCEPT !.lastHit = now]
     IN  /\ buckets' = [k \in DOMAIN buckets \cup {key} |-> IF k = key THEN b ELSE buckets[k]]
         /\ aloc' = [aloc EXCEPT ![c] = b.tokens]
  /\ apc' = [apc EXCEPT ![c] = "store"]
  /\ UNCHANGED <<mu, aret, rps, burst, others, now, lastReq, mon, ctorArgs, advances,
                 keyReq, keyOut, agentVars, httpVars, execVars, callVars, downVars>>

\* the rest of allow: return false, or b.tokens -= 1 and return true; the
\* deferred rl.mu.Unlock() runs
AllowStore(c, key) ==
  /\ apc[c] = "store"
  /\ IF aloc[c] < OneToken
     THEN /\ aret' = [aret EXCEPT ![c] = "denied"]
          /\ UNCHANGED buckets
     ELSE /\ aret' = [aret EXCEPT ![c] = "allowed"]
          /\ buckets' = [buckets EXCEPT ![key].tokens = aloc[c] - OneToken]
  /\ mu' = IF mu = c THEN 0 ELSE mu
  /\ apc' = [apc EXCEPT ![c] = "done"]
  /\ UNCHANGED <<aloc, rps, burst, others, now, lastReq, mon, ctorArgs, advances,
                 keyReq, keyOut, agentVars, httpVars, execVars, callVars, downVars>>

\* the bursts explored: smaller than the number of callers, and the default
LockBurstArgs == {1, 2, DefaultBurst}

InitLock ==
  /\ AgentInit({1})
  /\ LimiterInit({DefaultRPS}, LockBurstArgs)
  /\ KeyInit({NoKeyReq})
  /\ HttpInit
  /\ ExecInit({NoExecCfg}, {NoExecIn}, {<<"/">>})
  /\ CallInit({NoCall})
  /\ DownInit
  /\ LockInit

\* requests of one client, at one instant
NextLock ==
  \E c \in Callers :
    \/ AllowEnter(c)
    \/ AllowLock(c)
    \/ AllowLoad(c, BurstClient)
    \/ AllowStore(c, BurstClient)

SpecLock == InitLock /\ [][NextLock]_vars

\* ------------------------------------------------------------ clientIPKey
XffValues == SeqsUpTo({"a", ",", " "}, MaxHeaderLen)
RipValues == SeqsUpTo({"b", " "}, MaxRipLen)
AddrValues ==
  SeqsUpTo({"c", ":"}, MaxAddrLen)
  \cup { <<"[", "c", "]", ":", "c">>, <<"[", ":", ":", "c", "]", ":", "c">>,
         <<"[", "c", "]">>, <<"[", "c", ":", "c">>, <<"[", "c", "]", "c", ":", "c">>,
         <<"c", "[", ":", "c">>, <<"[", "c", "]", ":", "]">> }

KeyRequests == [xff : XffValues, rip : RipValues, remote : AddrValues]

InitKey ==
  /\ AgentInit({1})
  /\ LimiterInit({DefaultRPS}, {DefaultBurst})
  /\ KeyInit(KeyRequests)
  /\ HttpInit
  /\ ExecInit({NoExecCfg}, {NoExecIn}, {<<"/">>})
  /\ CallInit({NoCall})
  /\ DownInit
  /\ LockInit

NextKey == ComputeKey

SpecKey == InitKey /\ [][NextKey]_vars

\* ------------------------------------------------------- the API server
\* the configured rate-limit burst: 1, or unset and defaulted
HttpBurstArgs == {1, DefaultBurst}

\* the provider's answers explored with the API server: a final answer, an
\* empty final answer, an error
HttpChatResponses == { r \in ChatResponses : r.ToolCalls = <<>> }

InitHttp ==
  /\ AgentInit(BusIterOpts)
  /\ LimiterInit({DefaultRPS}, HttpBurstArgs)
  /\ KeyInit({NoKeyReq})
  /\ HttpInit
  /\ ExecInit({NoExecCfg}, {NoExecIn}, {<<"/">>})
  /\ CallInit({NoCall})
  /\ DownInit
  /\ LockInit

NextHttp ==
  \/ \E ok \in BOOLEAN : StartChannels(ok)
  \/ Listen
  \/ \E req \in HttpRequests : ServeRequest(req)
  \/ \E req \in HttpRequests : ChatBegin(req)
  \/ \E r \in HttpChatResponses : Chat("direct", r)
  \/ ChatEnd
  \/ ChatPanic
  \/ Advance(TicksPerSecond)

SpecHttp == InitHttp /\ [][NextHttp]_vars

\* ------------------------------- the gateway: Run and /chat side by side
\* the session keys a /chat request can name: one a channel's chat also has
\* (processMessage builds "channel:chatID"), and the handler's default
SharedKeys == { SessionKeyOf(<<"t">>, <<"1">>), LocalDefault }

\* the provider responses explored here: a final answer, an error
SharedResponses ==
  { r \in ChatResponses : r.ToolCalls = <<>> /\ (r.err \/ r.Content = "ok") }

InitShared ==
  /\ AgentInit(BusIterOpts)
  /\ LimiterInit({DefaultRPS}, {DefaultBurst})
  /\ KeyInit({NoKeyReq})
  /\ HttpInit
  /\ ExecInit({NoExecCfg}, {NoExecIn}, {<<"/">>})
  /\ CallInit({NoCall})
  /\ DownInit
  /\ LockInit

\* go loop.Run(ctx) and the API server's handler goroutines run together
NextShared ==
  \/ StartDispatch
  \/ \E c \in ChannelNames, chat \in ChatIDs, content \in UserContents :
       PublishInbound(c, chat, content)
  \/ RunStart
  \/ RunConsume
  \/ \E r \in SharedResponses : Chat("run", r)
  \/ RunFinish
  \/ RunPublish
  \/ Dispatch
  \/ \E content \in UserContents, key \in SharedKeys :
       directCalls < MaxInbound /\ DirectCall(content, key)
  \/ \E r \in SharedResponses : Chat("direct", r)
  \/ DirectReturn

SpecShared == InitShared /\ [][NextShared]_vars

\* ------------------------------------------------ the gateway's shutdown
\* cfg.Gateway.ShutdownTimeout when the configuration leaves it unset
ShutdownTimeoutSeconds == 10
ShutdownTimeout == ShutdownTimeoutSeconds * TicksPerSecond

\* (a Shutdown that returns without waiting)
ShutdownDoneAtOnce(busy) == TRUE

\* http.Server.Shutdown(shutdownCtx) returns: no connection is active any
\* more, or shutdownCtx has expired
ShutdownDone(busy) == ~busy \/ now >= deadline

\* a step of the shutdown as the history records it
Logged(ev) ==
  Append(downLog, [ev |-> ev, at |-> now, api |-> inflight # NoInflight,
                   dash |-> dashBusy, n |-> httpCount])

\* the dashboard server takes a request
DashBegin ==
  /\ gw \in {"serving", "apiShutdown"}
  /\ ~dashBusy
  /\ dashBusy' = TRUE
  /\ UNCHANGED <<deadline, downLog, httpVars, execVars, callVars, lockVars, agentVars, rlVars>>

\* and answers it
DashEnd ==
  /\ gw # "returned"
  /\ dashBusy
  /\ dashBusy' = FALSE
  /\ UNCHANGED <<deadline, downLog, httpVars, execVars, callVars, lockVars, agentVars, rlVars>>

\* dashServer.ListenAndServe fails: its goroutine calls cancel()
DashboardFails ==
  /\ gw = "serving"
  /\ ~cancelled
  /\ ~dashBusy
  /\ cancelled' = TRUE
  /\ UNCHANGED <<maxIterations, running, dispatcher, directCalls, busVars, sessVars,
                 turnVars, turnLog, rlVars, edgeVars>>

\* the select returns, on a signal or because ctx is done; shutdownCtx is
\* created and apiServer.Shutdown closes the API listener and starts waiting
ShutdownBegin(cause) ==
  /\ gw = "serving"
  /\ cause = "context" => cancelled
  /\ gw' = "apiShutdown"
  /\ deadline' = now + ShutdownTimeout
  /\ downLog' = Logged(cause)
  /\ UNCHANGED <<ready, waStart, inflight, lastHttp, panics, httpCount, dashBusy,
                 execVars, callVars, lockVars, agentVars, rlVars>>

\* apiServer.Shutdown returns; dashServer.Shutdown closes the dashboard
\* listener and starts waiting, on the same shutdownCtx
ApiShutdownReturn ==
  /\ gw = "apiShutdown"
  /\ ShutdownDone(inflight # NoInflight)
  /\ gw' = "dashShutdown"
  /\ downLog' = Logged("api drained")
  /\ UNCHANGED <<ready, waStart, inflight, lastHttp, panics, httpCount, deadline, dashBusy,
                 execVars, callVars, lockVars, agentVars, rlVars>>

\* dashServer.Shutdown returns
DashShutdownReturn ==
  /\ gw = "dashShutdown"
  /\ ShutdownDone(dashBusy)
  /\ gw' = "drained"
  /\ downLog' = Logged("dash drained")
  /\ UNCHANGED <<ready, waStart, inflight, lastHttp, panics, httpCount, deadline, dashBusy,
                 execVars, callVars, lockVars, agentVars, rlVars>>

\* wa.Stop()
WaStop ==
  /\ gw = "drained"
  /\ gw' = "waStopped"
  /\ downLog' = Logged("wa.Stop")
  /\ UNCHANGED <<ready, waStart, inflight, lastHttp, panics, httpCount, deadline, dashBusy,
                 execVars, callVars, lockVars, agentVars, rlVars>>

\* loop.Stop()
LoopStop ==
  /\ gw = "waStopped"
  /\ gw' = "loopStopped"
  /\ running' = FALSE
  /\ downLog' = Logged("loop.Stop")
  /\ UNCHANGED <<ready, waStart, inflight, lastHttp, panics, httpCount, deadline, dashBusy,
                 execVars, callVars, lockVars, maxIterations, cancelled, dispatcher, directCalls,
                 busVars, sessVars, turnVars, turnLog, rlVars>>

\* timeSvc.Close()
StoreClose ==
  /\ gw = "loopStopped"
  /\ gw' = "closed"
  /\ downLog' = Logged("timeSvc.Close")
  /\ UNCHANGED <<ready, waStart, inflight, lastHttp, panics, httpCount, deadline, dashBusy,
                 execVars, callVars, lockVars, agentVars, rlVars>>

\* runGateway returns: the deferred shutdownCancel() and cancel() run
GatewayReturn ==
  /\ gw = "closed"
  /\ gw' = "returned"
  /\ cancelled' = TRUE
  /\ downLog' = Logged("return")
  /\ UNCHANGED <<ready, waStart, inflight, lastHttp, panics, httpCount, deadline, dashBusy,
                 execVars, callVars, lockVars, maxIterations, running, dispatcher, directCalls,
                 busVars, sessVars, turnVars, turnLog, rlVars>>

\* time passes while a Shutdown waits; the wait ends with shutdownCtx
Wait(d) ==
  /\ gw \in {"apiShutdown", "dashShutdown"}
  /\ now + d <= deadline
  /\ now' = now + d
  /\ UNCHANGED <<rps, burst, buckets, others, lastReq, mon, ctorArgs, advances, keyReq,
                 keyOut, agentVars, edgeVars>>

\* the requests explored with the shutdown: a /chat call and a health check
DownRequests ==
  { req \in HttpRequests :
      /\ req.hdr.xff = <<>>
      /\ \/ req.method = "POST" /\ req.path = "/chat" /\ req.message = "hi"
         \/ req.method = "GET" /\ req.path = "/health" }

DownResponses == { r \in ChatResponses : r.ToolCalls = <<>> /\ r.Content # "" }

InitDown ==
  /\ AgentInit(BusIterOpts)
  /\ LimiterInit({DefaultRPS}, {DefaultBurst})
  /\ KeyInit({NoKeyReq})
  /\ HttpInit
  /\ ExecInit({NoExecCfg}, {NoExecIn}, {<<"/">>})
  /\ CallInit({NoCall})
  /\ DownInit
  /\ LockInit

NextDown ==
  \/ \E ok \in BOOLEAN : StartChannels(ok)
  \/ Listen
  \/ \E req \in DownRequests : ServeRequest(req)
  \/ \E req \in DownRequests : ChatBegin(req)
  \/ \E r \in DownResponses : gw # "returned" /\ Chat("direct", r)
  \/ gw # "returned" /\ ChatEnd
  \/ DashBegin
  \/ DashEnd
  \/ DashboardFails
  \/ \E cause \in {"signal", "context"} : ShutdownBegin(cause)
  \/ ApiShutdownReturn
  \/ DashShutdownReturn
  \/ WaStop
  \/ LoopStop
  \/ StoreClose
  \/ GatewayReturn
  \/ \E d \in {ShutdownTimeout \div 2, ShutdownTimeout} : Wait(d)

SpecDown == InitDown /\ [][NextDown]_vars

\* ------------------------------------------- Run, Stop and cancellation
InitStop ==
  /\ AgentInit(BusIterOpts)
  /\ LimiterInit({DefaultRPS}, {DefaultBurst})
  /\ KeyInit({NoKeyReq})
  /\ HttpInit
  /\ ExecInit({NoExecCfg}, {NoExecIn}, {<<"/">>})
  /\ CallInit({NoCall})
  /\ DownInit
  /\ LockInit

NextStop ==
  \/ StartDispatch
  \/ \E c \in ChannelNames, chat \in ChatIDs, content \in UserContents :
       PublishInbound(c, chat, content)
  \/ RunStart
  \/ RunConsume
  \/ RunCancelled
  \/ \E r \in SharedResponses : Chat("run", r)
  \/ RunFinish
  \/ RunPublish
  \/ Dispatch
  \/ DispatchExit
  \/ Stop
  \/ Cancel

SpecStop == InitStop /\ [][NextStop]_vars

\* ------------------------------------------- the configured iteration cap
\* LoopOptions.MaxIterations as configured: negative, unset, positive
CapOpts == {-1, 0, 1}

\* the provider's answers explored up to the default cap: a final answer, a
\* tool call
CapResponses ==
  { r \in BusResponses : ~r.err /\ (r.Content = "ok" \/ r.ToolCalls # <<>>) }

InitCap ==
  /\ AgentInit(CapOpts)
  /\ LimiterInit({DefaultRPS}, {DefaultBurst})
  /\ KeyInit({NoKeyReq})
  /\ HttpInit
  /\ ExecInit({NoExecCfg}, {NoExecIn}, {<<"/">>})
  /\ CallInit({NoCall})
  /\ DownInit
  /\ LockInit

NextCap ==
  \/ \E content \in UserContents, key \in DirectKeys :
       directCalls = 0 /\ DirectCall(content, key)
  \/ \E r \in CapResponses : Chat("direct", r)
  \/ ExecTool("direct", [result |-> "tool output", err |-> FALSE])
  \/ DirectReturn

SpecCap == InitCap /\ [][NextCap]_vars

\* ------------------------------------------------- a turn after a turn
\* the number of ProcessDirect calls explored
MaxDirectTurns == 2

\* what the callers send
RetryContents == {"hi", "again"}

InitRetry ==
  /\ AgentInit(BusIterOpts)
  /\ LimiterInit({DefaultRPS}, {DefaultBurst})
  /\ KeyInit({NoKeyReq})
  /\ HttpInit
  /\ ExecInit({NoExecCfg}, {NoExecIn}, {<<"/">>})
  /\ CallInit({NoCall})
  /\ DownInit
  /\ LockInit

\* ProcessDirect called again and again, on the same key or another
NextRetry ==
  \/ \E content \in RetryContents, key \in DirectKeys :
       directCalls < MaxDirectTurns /\ DirectCall(content, key)
  \/ \E r \in BusResponses : Chat("direct", r)
  \/ \E o \in [result : {"tool output", ""}, err : BOOLEAN] : ExecTool("direct", o)
  \/ DirectReturn

SpecRetry == InitRetry /\ [][NextRetry]_vars

\* ------------------------------------------- Run and what it publishes
\* the conversations of a channel
RouteChatIDs == {<<"1">>, <<"2">>}

InitRoute ==
  /\ AgentInit(BusIterOpts)
  /\ LimiterInit({DefaultRPS}, {DefaultBurst})
  /\ KeyInit({NoKeyReq})
  /\ HttpInit
  /\ ExecInit({NoExecCfg}, {NoExecIn}, {<<"/">>})
  /\ CallInit({NoCall})
  /\ DownInit
  /\ LockInit

\* nothing is dispatched here: the outbound queue keeps what Run published
NextRoute ==
  \/ StartDispatch
  \/ \E c \in ChannelNames, chat \in RouteChatIDs, content \in UserContents :
       PublishInbound(c, chat, content)
  \/ RunStart
  \/ RunConsume
  \/ \E r \in HttpChatResponses : Chat("run", r)
  \/ RunFinish
  \/ RunPublish
  \/ Stop

SpecRoute == InitRoute /\ [][NextRoute]_vars

\* ------------------------------------------ a direct turn and cancellation
\* the context handed to ProcessDirect is cancelled while the turn is inside
\* provider.Chat or inside Registry.Execute
CancelTurn ==
  /\ ~cancelled
  /\ pc["direct"] \in {"chat", "tool"}
  /\ cancelled' = TRUE
  /\ UNCHANGED <<maxIterations, running, dispatcher, directCalls, busVars, sessVars,
                 turnVars, turnLog, rlVars, edgeVars>>

\* what provider.Chat can return: a provider that honours the context
\* returns the context's error once it is cancelled
ChatOutcomes == { r \in ChatResponses : cancelled => r.err }

InitCancel ==
  /\ AgentInit(1..MaxIterOpt)
  /\ LimiterInit({DefaultRPS}, {DefaultBurst})
  /\ KeyInit({NoKeyReq})
  /\ HttpInit
  /\ ExecInit({NoExecCfg}, {NoExecIn}, {<<"/">>})
  /\ CallInit({NoCall})
  /\ DownInit
  /\ LockInit

NextCancel ==
  \/ \E content \in UserContents, key \in DirectKeys :
       directCalls = 0 /\ DirectCall(content, key)
  \/ \E r \in ChatOutcomes : Chat("direct", r)
  \/ \E o \in [result : {"tool output", "", "Error: tool not found"}, err : BOOLEAN] :
       ExecTool("direct", o)
  \/ DirectReturn
  \/ CancelTurn

SpecCancel == InitCancel /\ [][NextCancel]_vars

\* ------------------------------------------------------------ the exec tool
\* texts are sequences of one-character strings
HasPrefix(s, prefix) == Len(s) >= Len(prefix) /\ SubSeq(s, 1, Len(prefix)) = prefix

\* --- regular expressions (regexp.MatchString): the set of positions at
\* which a match of re that starts at a position of P can end
WordChars ==
  {"a", "b", "c", "d", "e", "f", "g", "h", "i", "j", "k", "l", "m", "n", "o", "p", "q",
   "r", "s", "t", "u", "v", "w", "x", "y", "z", "A", "B", "C", "D", "E", "F", "G", "H",
   "I", "J", "K", "L", "M", "N", "O", "P", "Q", "R", "S", "T", "U", "V", "W", "X", "Y",
   "Z", "0", "1", "2", "3", "4", "5", "6", "7", "8", "9", "_"}

SpaceChars == {" ", "\t", "\n", "\f", "\r"}

RECURSIVE Ends(_, _, _)
Ends(re, s, P) ==
  CASE re.t = "set"  -> { p + 1 : p \in { q \in P : q < Len(s) /\ s[q + 1] \in re.cs } }
    [] re.t = "dot"  -> { p + 1 : p \in { q \in P : q < Len(s) /\ s[q + 1] # "\n" } }
    [] re.t = "wb"   -> LET IsWordAt(i) == i >= 1 /\ i <= Len(s) /\ s[i] \in WordChars
                        IN  { p \in P : IsWordAt(p) # IsWordAt(p + 1) }
    [] re.t = "cat"  -> IF re.xs = <<>> THEN P
                        ELSE Ends([t |-> "cat", xs |-> Tail(re.xs)], s, Ends(Head(re.xs), s, P))
    [] re.t = "alt"  -> UNION { Ends(re.xs[i], s, P) : i \in 1..Len(re.xs) }
    [] re.t = "star" -> LET Q == P \cup Ends(re.x, s, P)
                        IN  IF Q = P THEN P ELSE Ends(re, s, Q)
    [] re.t = "plus" -> Ends([t |-> "star", x |-> re.x], s, Ends(re.x, s, P))

\* Regexp.MatchString: a match starting anywhere
MatchString(re, s) == Ends(re, s, 0..Len(s)) # {}


\* DenyPatterns, each with its text and what regexp.Compile makes of it (in
\* the tenth, "{" opens no repetition and stands for itself, and "|" divides
\* the whole pattern in two)
DenyPatterns ==
  LET Set(cs) == [t |-> "set", cs |-> cs]
      Cat(xs) == [t |-> "cat", xs |-> xs]
      Alt(xs) == [t |-> "alt", xs |-> xs]
      Star(x) == [t |-> "star", x |-> x]
      Plus(x) == [t |-> "plus", x |-> x]
      Lit(str) == Cat([i \in 1..Len(str) |-> Set({str[i]})])
      WB == [t |-> "wb"]
      Dot == [t |-> "dot"]
      Sp == Set(SpaceChars)
      Word(str) == Cat(<<WB, Lit(str), WB>>)
  IN
  <<[text |-> "\\brm\\s+(-[rf]+\\s+)*[/~]",
     re |-> Cat(<<WB, Lit(<<"r", "m">>), Plus(Sp), Star(Cat(<<Lit(<<"-">>), Plus(Set({"r", "f"})), Plus(Sp)>>)), Set({"/", "~"})>>)],
    [text |-> "\\brm\\s+-rf\\b",
     re |-> Cat(<<WB, Lit(<<"r", "m">>), Plus(Sp), Lit(<<"-", "r", "f">>), WB>>)],
    [text |-> "\\bdd\\b.*\\bof=/dev/",
     re |-> Cat(<<Word(<<"d", "d">>), Star(Dot), WB, Lit(<<"o", "f", "=", "/", "d", "e", "v", "/">>)>>)],
    [text |-> "\\bmkfs\\b",
     re |-> Word(<<"m", "k", "f", "s">>)],
    [text |-> "\\bfdisk\\b",
     re |-> Word(<<"f", "d", "i", "s", "k">>)],
    [text |-> "\\bformat\\b",
     re |-> Word(<<"f", "o", "r", "m", "a", "t">>)],
    [text |-> ">\\s*/dev/",
     re |-> Cat(<<Lit(<<">">>), Star(Sp), Lit(<<"/", "d", "e", "v", "/">>)>>)],
    [text |-> "\\bchmod\\s+-R\\s+777\\b",
     re |-> Cat(<<WB, Lit(<<"c", "h", "m", "o", "d">>), Plus(Sp), Lit(<<"-", "R">>), Plus(Sp), Lit(<<"7", "7", "7">>), WB>>)],
    [text |-> "\\bchown\\s+-R\\b.*[/~]",
     re |-> Cat(<<WB, Lit(<<"c", "h", "o", "w", "n">>), Plus(Sp), Lit(<<"-", "R">>), WB, Star(Dot), Set({"/", "~"})>>)],
    [text |-> "\\b:(){ :|:& };:\\b",
     re |-> Alt(<<Cat(<<WB, Lit(<<":">>), Cat(<<>>), Lit(<<"{", " ", ":">>)>>), Cat(<<Lit(<<":", "&", " ", "}", ";", ":">>), WB>>)>>)],
    [text |-> "\\bshutdown\\b",
     re |-> Word(<<"s", "h", "u", "t", "d", "o", "w", "n">>)],
    [text |-> "\\breboot\\b",
     re |-> Word(<<"r", "e", "b", "o", "o", "t">>)],
    [text |-> "\\bhalt\\b",
     re |-> Word(<<"h", "a", "l", "t">>)],
    [text |-> "\\binit\\s+[0-6]\\b",
     re |-> Cat(<<WB, Lit(<<"i", "n", "i", "t">>), Plus(Sp), Set({"0", "1", "2", "3", "4", "5", "6"}), WB>>)],
    [text |-> "\\bsystemctl\\s+(start|stop|restart|enable|disable)\\b",
     re |-> Cat(<<WB, Lit(<<"s", "y", "s", "t", "e", "m", "c", "t", "l">>), Plus(Sp), Alt(<<Lit(<<"s", "t", "a", "r", "t">>), Lit(<<"s", "t", "o", "p">>), Lit(<<"r", "e", "s", "t", "a", "r", "t">>), Lit(<<"e", "n", "a", "b", "l", "e">>), Lit(<<"d", "i", "s", "a", "b", "l", "e">>)>>), WB>>)]>>

\* PathPatterns: "../", "..\", "/..", "\.."
PathPatterns ==
  LET Lit(str) == [t |-> "cat", xs |-> [i \in 1..Len(str) |-> [t |-> "set", cs |-> {str[i]}]]]
  IN  <<Lit(<<".", ".", "/">>), Lit(<<".", ".", "\\">>), Lit(<<"/", ".", ".">>), Lit(<<"\\", ".", ".">>)>>

\* --- filepath.Abs on a system with "/" as separator
RECURSIVE Split(_, _)
\* the elements of a path: Split(p, <<>>) cuts p at every "/"
Split(p, seg) ==
  IF p = <<>> THEN <<seg>>
  ELSE IF Head(p) = "/" THEN <<seg>> \o Split(Tail(p), <<>>)
  ELSE Split(Tail(p), Append(seg, Head(p)))

RECURSIVE CleanRooted(_, _)
\* filepath.Clean of a rooted path, given its elements: empty elements and
\* "." are dropped, ".." drops the element before it (none at the root)
CleanRooted(segs, kept) ==
  IF segs = <<>> THEN kept
  ELSE LET x == Head(segs)
       IN  IF x = <<>> \/ x = <<".">> THEN CleanRooted(Tail(segs), kept)
           ELSE IF x = <<".", ".">>
           THEN CleanRooted(Tail(segs),
                            IF kept = <<>> THEN kept ELSE SubSeq(kept, 1, Len(kept) - 1))
           ELSE CleanRooted(Tail(segs), Append(kept, x))

RECURSIVE Join(_)
Join(segs) == IF segs = <<>> THEN <<>> ELSE <<"/">> \o Head(segs) \o Join(Tail(segs))

\* the elements of the absolute, cleaned form of p in working directory dir
AbsElements(dir, p) ==
  CleanRooted(Split(IF p # <<>> /\ Head(p) = "/" THEN p ELSE dir \o <<"/">> \o p, <<>>), <<>>)

\* filepath.Abs(p) in a process whose working directory is dir
Abs(dir, p) ==
  LET segs == AbsElements(dir, p) IN IF segs = <<>> THEN <<"/">> ELSE Join(segs)

\* --- fmt's %d and time.Duration's %v (whole seconds below one hour)
RECURSIVE Itoa(_)
Itoa(n) ==
  LET Digits == <<"0", "1", "2", "3", "4", "5", "6", "7", "8", "9">>
  IN  IF n < 0 THEN <<"-">> \o Itoa(0 - n)
      ELSE IF n < 10 THEN <<Digits[n + 1]>>
      ELSE Itoa(n \div 10) \o <<Digits[(n % 10) + 1]>>

SecondsPerMinute == 60

DurationText(d) ==
  IF d < SecondsPerMinute THEN Itoa(d) \o <<"s">>
  ELSE Itoa(d \div SecondsPerMinute) \o <<"m">> \o Itoa(d % SecondsPerMinute) \o <<"s">>

\* --- the calls explored
\* commands without a destructive part: a listing and a relative read
PlainCommands ==
  {<<"l", "s">>,
   <<"c", "a", "t", " ", ".", ".", "/", "x">>}

\* the commands Execute is called with: the empty one, one for each deny
\* pattern (two for the first and the tenth), the fork bomb itself, and
\* commands no pattern is meant for
ExecCommands ==
  PlainCommands \cup
  {<<>>,
   <<"f", "a", "r", "m", " ", "-", "r", "f">>,
   <<":", "(", ")", "{", " ", ":", "|", ":", "&", " ", "}", ";", ":">>,
   <<"r", "m", " ", "-", "r", "f", " ", "/">>,
   <<"r", "m", " ", "-", "r", " ", "-", "f", " ", "~">>,
   <<"r", "m", " ", "-", "r", "f", " ", "x">>,
   <<"d", "d", " ", "i", "f", "=", "a", " ", "o", "f", "=", "/", "d", "e", "v", "/", "s", "d", "a">>,
   <<"m", "k", "f", "s">>,
   <<"f", "d", "i", "s", "k">>,
   <<"f", "o", "r", "m", "a", "t">>,
   <<"e", "c", "h", "o", " ", "a", " ", ">", "/", "d", "e", "v", "/", "n", "u", "l", "l">>,
   <<"c", "h", "m", "o", "d", " ", "-", "R", " ", "7", "7", "7", " ", "x">>,
   <<"c", "h", "o", "w", "n", " ", "-", "R", " ", "u", " ", "/">>,
   <<"x", ":", "{", " ", ":">>,
   <<":", "&", " ", "}", ";", ":", "x">>,
   <<"s", "h", "u", "t", "d", "o", "w", "n">>,
   <<"r", "e", "b", "o", "o", "t">>,
   <<"h", "a", "l", "t">>,
   <<"i", "n", "i", "t", " ", "0">>,
   <<"s", "y", "s", "t", "e", "m", "c", "t", "l", " ", "s", "t", "o", "p", " ", "x">>}

\* the workspace root of the explored tools
Workspace == <<"/", "w">>

\* working_dir arguments: the root, below it, beside it, outside it directly
\* and through "..", a relative one, the empty one
ExecDirs ==
  {<<"/", "w">>,
   <<"/", "w", "/", "s", "u", "b">>,
   <<"/", "w", "x">>,
   <<"/", "w", "/", ".", ".", "/", "e", "t", "c">>,
   <<"/", "e", "t", "c">>,
   <<"s", "u", "b">>,
   <<>>}

\* the deny and traversal checks of every explored command, computed once
CommandChecks ==
  [c \in ExecCommands |->
     [deny |-> IF \E i \in 1..Len(DenyPatterns) : MatchString(DenyPatterns[i].re, c)
               THEN CHOOSE i \in 1..Len(DenyPatterns) :
                      /\ MatchString(DenyPatterns[i].re, c)
                      /\ \A j \in 1..(i - 1) : ~MatchString(DenyPatterns[j].re, c)
               ELSE 0,
      traversal |-> \E i \in 1..Len(PathPatterns) : MatchString(PathPatterns[i], c)]]

\* the parameters of the explored calls: every command with no working_dir
\* and with a few, the plain commands with every working_dir
ExecParams ==
  { [command |-> c] : c \in ExecCommands }
  \cup { [command |-> c, working_dir |-> d] :
            c \in ExecCommands, d \in {<<"/", "w", "/", "s", "u", "b">>, <<"/", "e", "t", "c">>} }
  \cup { [command |-> c, working_dir |-> d] : c \in PlainCommands, d \in ExecDirs }

\* GetString(params, key, defaultVal)
GetString(params, key, defaultVal) ==
  IF key \in DOMAIN params THEN params[key] ELSE defaultVal

\* a nil error
NoError == <<>>

\* (a guard that looks at the deny patterns only under confinement)
guardCommandDenyWhenConfined(t, dir, command, workingDir) ==
  IF t.RestrictToWorkspace /\ t.WorkDir # <<>>
  THEN IF CommandChecks[command].deny # 0
       THEN <<"Error: command blocked for safety: ",
              DenyPatterns[CommandChecks[command].deny].text>>
       ELSE IF CommandChecks[command].traversal
       THEN <<"Error: path traversal not allowed">>
       ELSE IF /\ workingDir # <<>> /\ workingDir # t.WorkDir
               /\ ~HasPrefix(Abs(dir, workingDir), Abs(dir, t.WorkDir))
       THEN <<"Error: working directory must be within workspace">>
       ELSE NoError
  ELSE NoError

\* guardCommand in a process whose working directory is dir: the text of the
\* error it returns, NoError for nil
guardCommand(t, dir, command, workingDir) ==
  IF CommandChecks[command].deny # 0
  THEN <<"Error: command blocked for safety: ", DenyPatterns[CommandChecks[command].deny].text>>
  ELSE IF t.RestrictToWorkspace /\ t.WorkDir # <<>>
  THEN IF CommandChecks[command].traversal
       THEN <<"Error: path traversal not allowed">>
       ELSE IF /\ workingDir # <<>> /\ workingDir # t.WorkDir
               /\ ~HasPrefix(Abs(dir, workingDir), Abs(dir, t.WorkDir))
       THEN <<"Error: working directory must be within workspace">>
       ELSE NoError
  ELSE NoError

\* what cmd.Run and the context leave behind: how Run ended ("ok": nil,
\* "exit": an ExitError with the code, "fail": another error), the state of
\* the context with the timeout when Execute looks at it, and the captured
\* output.  A killed process has exit code -1; a process can end by itself
\* just as the deadline passes.
ProcOutcomes ==
  { [run |-> "ok", code |-> 0, ctx |-> "none", stdout |-> o, stderr |-> e] :
       o \in {<<>>, <<"out">>}, e \in {<<>>, <<"err">>} }
  \cup { [run |-> "exit", code |-> 1, ctx |-> "none", stdout |-> o, stderr |-> e] :
       o \in {<<>>, <<"out">>}, e \in {<<>>, <<"err">>} }
  \cup { [run |-> "exit", code |-> -1, ctx |-> "deadline", stdout |-> o, stderr |-> <<>>] :
       o \in {<<>>, <<"out">>} }
  \cup { [run |-> "exit", code |-> 1, ctx |-> "deadline", stdout |-> <<"out">>, stderr |-> <<>>],
         [run |-> "ok", code |-> 0, ctx |-> "deadline", stdout |-> <<"out">>, stderr |-> <<>>],
         [run |-> "exit", code |-> -1, ctx |-> "canceled", stdout |-> <<>>, stderr |-> <<>>],
         [run |-> "fail", code |-> 0, ctx |-> "none", stdout |-> <<>>, stderr |-> <<>>] }

\* the timeout when the tool has none
DefaultTimeoutSeconds == 60

\* Execute: timeout := t.Timeout, 60 s when it is zero
EffectiveTimeout(t) == IF t.Timeout = 0 THEN DefaultTimeoutSeconds ELSE t.Timeout

\* Execute: the captured output, standard error under its label
BuildResult(oc) ==
  oc.stdout \o
  (IF oc.stderr # <<>>
   THEN (IF oc.stdout # <<>> THEN <<"\n">> ELSE <<>>) \o <<"STDERR:\n">> \o oc.stderr
   ELSE <<>>)

\* (an Execute that returns the command's failure as its error)
RunResultRaising(timeout, oc) ==
  [result |-> BuildResult(oc), err |-> oc.ctx = "deadline" \/ oc.run # "ok"]

\* Execute after cmd.Run: the text and the error it returns
RunResult(timeout, oc) ==
  IF oc.ctx = "deadline"
  THEN [result |-> <<"Error: command timed out after ">> \o DurationText(timeout)
                     \o <<"\n">> \o BuildResult(oc),
        err |-> FALSE]
  ELSE IF oc.run = "fail"
  THEN [result |-> <<"Error executing command: ", "start failed">>, err |-> FALSE]
  ELSE LET result == BuildResult(oc)
                       \o (IF oc.run = "exit" THEN <<"\nExit code: ">> \o Itoa(oc.code)
                           ELSE <<>>)
       IN  [result |-> IF result = <<>> THEN <<"(no output)">> ELSE result, err |-> FALSE]

\* Execute(ctx, params): the checks, then the command under "sh -c" with its
\* outcome
Execute(params) ==
  /\ spawned < MaxSpawned
  /\ execIn' = params
  /\ LET command == GetString(params, "command", <<>>)
         workingDir == GetString(params, "working_dir", execCfg.WorkDir)
     IN  IF command = <<>>
         THEN /\ execOut' = [result |-> <<"Error: command is required">>, err |-> FALSE]
              /\ lastProc' = NoProc
              /\ UNCHANGED spawned
         ELSE \E g \in {guardCommand(execCfg, cwd, command, workingDir)} :
                IF g # NoError
                THEN /\ execOut' = [result |-> g, err |-> FALSE]
                     /\ lastProc' = NoProc
                     /\ UNCHANGED spawned
                ELSE \E oc \in ProcOutcomes :
                       /\ spawned' = spawned + 1
                       /\ lastProc' = [command |-> command, Dir |-> workingDir, outcome |-> oc]
                       /\ execOut' = RunResult(EffectiveTimeout(execCfg), oc)
  /\ UNCHANGED <<execCfg, cwd, agentVars, rlVars, httpVars, callVars, downVars, lockVars>>

\* the tools explored: with and without a timeout of their own, with and
\* without confinement, with and without a workspace root
ExecCfgs ==
  [Timeout : {0, ExecTimeoutSeconds}, RestrictToWorkspace : BOOLEAN,
   WorkDir : {<<>>, Workspace}]

\* the working directories of the process explored: the root directory and
\* the workspace root
ExecCwds == {<<"/">>, Workspace}

InitExec ==
  /\ AgentInit(BusIterOpts)
  /\ LimiterInit({DefaultRPS}, {DefaultBurst})
  /\ KeyInit({NoKeyReq})
  /\ HttpInit
  /\ ExecInit(ExecCfgs, {NoExecIn}, ExecCwds)
  /\ CallInit({NoCall})
  /\ DownInit
  /\ LockInit

NextExec == \E params \in ExecParams : Execute(params)

SpecExec == InitExec /\ [][NextExec]_vars

\* ------------------------------------------- the context of a long session
\* the longest session explored, in messages before the turn
MaxStored == 53

\* a session of n messages before the turn: user and assistant in turn, the
\* j-th with the content Itoa(j)
StoredSession(n) ==
  [j \in 1..n |-> [Role |-> IF j % 2 = 1 THEN "user" ELSE "assistant", Content |-> Itoa(j)]]

\* ProcessDirect's first statements on such a session: the input is recorded,
\* then the context is built
BuildCall(n, content, key) ==
  LET parsed == ParseSessionKey(key)
      store == AddMessage([k \in {key} |-> StoredSession(n)], key, "user", content)
  IN  /\ callIn' = [fn |-> "BuildMessages", prior |-> StoredSession(n), content |-> content,
                    key |-> key]
      /\ callOut' = BuildMessages(store[key], content, parsed.channel, parsed.chatID)
      /\ UNCHANGED <<agentVars, rlVars, httpVars, execVars, downVars, lockVars>>

InitBuild ==
  /\ AgentInit(BusIterOpts)
  /\ LimiterInit({DefaultRPS}, {DefaultBurst})
  /\ KeyInit({NoKeyReq})
  /\ HttpInit
  /\ ExecInit({NoExecCfg}, {NoExecIn}, {<<"/">>})
  /\ CallInit({NoCall})
  /\ DownInit
  /\ LockInit

\* the input is new to the session, or repeats its first message
NextBuild ==
  \E n \in 0..MaxStored, key \in DirectKeys :
    \E content \in {Itoa(n + 1), Itoa(1)} : BuildCall(n, content, key)

SpecBuild == InitBuild /\ [][NextBuild]_vars

\* ------------------------------------------------------- security.Redact
\* the longest key explored, in bytes
MaxKeyLen == 11

\* the bytes keys are made of
KeyBytes == {"a", "."}

Redacted == <<"[", "R", "E", "D", "A", "C", "T", "E", "D", "]">>

\* RedactAPIKey(key): len and the slices count bytes
RedactAPIKey(key) ==
  IF key = <<>> THEN <<>>
  ELSE IF Len(key) <= 8 THEN Redacted
  ELSE SubSeq(key, 1, 4) \o <<".", ".", ".">> \o SubSeq(key, Len(key) - 3, Len(key))

RedactCall(key) ==
  /\ callIn' = [fn |-> "RedactAPIKey", key |-> key]
  /\ callOut' = RedactAPIKey(key)
  /\ UNCHANGED <<agentVars, rlVars, httpVars, execVars, downVars, lockVars>>

InitRedact ==
  /\ AgentInit(BusIterOpts)
  /\ LimiterInit({DefaultRPS}, {DefaultBurst})
  /\ KeyInit({NoKeyReq})
  /\ HttpInit
  /\ ExecInit({NoExecCfg}, {NoExecIn}, {<<"/">>})
  /\ CallInit({NoCall})
  /\ DownInit
  /\ LockInit

\* one call, on any key of up to MaxKeyLen bytes
NextRedact ==
  \E n \in 0..MaxKeyLen : \E key \in [1..n -> KeyBytes] :
    callIn = NoCall /\ RedactCall(key)

SpecRedact == InitRedact /\ [][NextRedact]_vars

\* ------------------------------------------------------ the session keys
\* the longest channel name and chat ID explored, in bytes
MaxPartLen == 2

\* the bytes channel names and chat IDs are made of
PartBytes == {"a", ":"}

KeyParts == UNION { [1..n -> PartBytes] : n \in 0..MaxPartLen }

\* processMessage builds the key of an inbound message and ProcessDirect
\* parses channel and chat ID back from it
KeyRoundTrip(channel, chatID) ==
  LET key == SessionKeyOf(channel, chatID)
      parsed == ParseSessionKey(key)
  IN  [key |-> key, channel |-> parsed.channel, chatID |-> parsed.chatID]

\* two inbound messages, each taken through processMessage
SessionKeyCall(a, b) ==
  /\ callIn' = [fn |-> "processMessage", a |-> a, b |-> b]
  /\ callOut' = [a |-> KeyRoundTrip(a.Channel, a.ChatID),
                 b |-> KeyRoundTrip(b.Channel, b.ChatID)]
  /\ UNCHANGED <<agentVars, rlVars, httpVars, execVars, downVars, lockVars>>

InitTrip ==
  /\ AgentInit(BusIterOpts)
  /\ LimiterInit({DefaultRPS}, {DefaultBurst})
  /\ KeyInit({NoKeyReq})
  /\ HttpInit
  /\ ExecInit({NoExecCfg}, {NoExecIn}, {<<"/">>})
  /\ CallInit({NoCall})
  /\ DownInit
  /\ LockInit

\* one pair of inbound messages, of any channels and chat IDs
NextTrip ==
  \E a, b \in [Channel : KeyParts, ChatID : KeyParts] :
    callIn = NoCall /\ SessionKeyCall(a, b)

SpecTrip == InitTrip /\ [][NextTrip]_vars

\* ---------------------------------------------------------- the file tools
\* Parameters()["required"] of each built-in tool
ToolRequired(name) ==
  CASE name = "read_file"  -> {"path"}
    [] name = "write_file" -> {"path", "content"}
    [] name = "edit_file"  -> {"path", "old_text", "new_text"}
    [] name = "list_dir"   -> {"path"}
    [] name = "exec"       -> {"command"}

\* what the file system does to a tool's calls
FsOutcomes(name) ==
  CASE name = "read_file"  -> {"ok", "notfound", "denied", "other"}
    [] name = "write_file" -> {"ok", "mkdirfail", "denied", "other"}
    [] name = "edit_file"  -> {"ok", "notfound", "readfail", "textmissing", "writefail"}
    [] name = "list_dir"   -> {"ok", "notfound", "denied", "other"}

\* ReadFileTool.Execute
ReadFileExecute(params, fs) ==
  LET path == GetString(params, "path", <<>>)
  IN  [err |-> FALSE,
       result |->
         IF path = <<>> THEN <<"Error: path is required">>
         ELSE CASE fs = "notfound" -> <<"Error: file not found: ">> \o path
                [] fs = "denied"   -> <<"Error: permission denied: ">> \o path
                [] fs = "other"    -> <<"Error reading file: ", "read error">>
                [] fs = "ok"       -> <<"file content">>]

\* WriteFileTool.Execute
WriteFileExecute(params, fs) ==
  LET path == GetString(params, "path", <<>>)
      content == GetString(params, "content", <<>>)
  IN  [err |-> FALSE,
       result |->
         IF path = <<>> THEN <<"Error: path is required">>
         ELSE CASE fs = "mkdirfail" -> <<"Error creating directory: ", "mkdir error">>
                [] fs = "denied"    -> <<"Error: permission denied: ">> \o path
                [] fs = "other"     -> <<"Error writing file: ", "write error">>
                [] fs = "ok"        -> <<"Successfully wrote ">> \o Itoa(Len(content))
                                         \o <<" bytes to ">> \o path]

\* EditFileTool.Execute
EditFileExecute(params, fs) ==
  LET path == GetString(params, "path", <<>>)
      oldText == GetString(params, "old_text", <<>>)
  IN  [err |-> FALSE,
       result |->
         IF path = <<>> THEN <<"Error: path is required">>
         ELSE IF oldText = <<>> THEN <<"Error: old_text is required">>
         ELSE CASE fs = "notfound"    -> <<"Error: file not found: ">> \o path
                [] fs = "readfail"    -> <<"Error reading file: ", "read error">>
                [] fs = "textmissing" -> <<"Error: text not found in file: ">> \o path
                [] fs = "writefail"   -> <<"Error writing file: ", "write error">>
                [] fs = "ok"          -> <<"Successfully edited ">> \o path]

\* ListDirTool.Execute
ListDirExecute(params, fs) ==
  LET path == GetString(params, "path", <<".">>)
  IN  [err |-> FALSE,
       result |->
         CASE fs = "notfound" -> <<"Error: directory not found: ">> \o path
           [] fs = "denied"   -> <<"Error: permission denied: ">> \o path
           [] fs = "other"    -> <<"Error reading directory: ", "read error">>
           [] fs = "ok"       -> <<"Contents of ">> \o path \o <<":\n">>]

\* the maps of parameters with some of the given fields, each field empty
\* or the text "f"
ParamsOver(fields) ==
  UNION { [present -> {<<>>, <<"f">>}] : present \in SUBSET fields }

\* a call of a file tool's Execute
ToolCall(name, params, fs) ==
  /\ callIn' = [fn |-> name, params |-> params, fs |-> fs]
  /\ callOut' = CASE name = "read_file"  -> ReadFileExecute(params, fs)
                  [] name = "write_file" -> WriteFileExecute(params, fs)
                  [] name = "edit_file"  -> EditFileExecute(params, fs)
                  [] name = "list_dir"   -> ListDirExecute(params, fs)
  /\ UNCHANGED <<agentVars, rlVars, httpVars, execVars, downVars, lockVars>>

InitTools ==
  /\ AgentInit(BusIterOpts)
  /\ LimiterInit({DefaultRPS}, {DefaultBurst})
  /\ KeyInit({NoKeyReq})
  /\ HttpInit
  /\ ExecInit({[Timeout |-> 0, RestrictToWorkspace |-> TRUE, WorkDir |-> Workspace]},
              {NoExecIn}, {<<"/">>})
  /\ CallInit({NoCall})
  /\ DownInit
  /\ LockInit

NextTools ==
  \/ \E name \in {"read_file", "write_file", "edit_file", "list_dir"} :
       \E params \in ParamsOver(ToolRequired(name)), fs \in FsOutcomes(name) :
         ToolCall(name, params, fs)
  \/ \E params \in { <<>>, [working_dir |-> Workspace], [command |-> <<"l", "s">>] } :
       Execute(params)

SpecTools == InitTools /\ [][NextTools]_vars

\* ------------------------------------------------------------------ claims
\* C1: when the first provider response of a turn carries no tool calls, the
\* turn makes exactly one provider call, executes no tool and returns that
\* response's content with no error.
C1_FirstResponseFinal ==
  \A w \in Workers :
    (respLog[w] # <<>> /\ ~respLog[w][1].err /\ respLog[w][1].ToolCalls = <<>>)
      => /\ Len(respLog[w]) = 1
         /\ executed[w] = <<>>
         /\ pc[w] = "ret"
         /\ response[w] = respLog[w][1].Content
         /\ ~turnErr[w]

C1_Witness ==
  /\ pc["direct"] = "ret"
  /\ Len(respLog["direct"]) = 1
  /\ respLog["direct"][1].ToolCalls = <<>>
  /\ ~respLog["direct"][1].err
  /\ response["direct"] = "ok"

\* C2: when every provider response of a turn carries at least one tool call,
\* the turn (with a cap of at least one) makes exactly maxIterations provider
\* calls and returns the fixed max-iterations text with no error.
C2_AlwaysToolCalls ==
  \A w \in Workers :
    (/\ pc[w] = "ret"
     /\ maxIterations >= 1
     /\ \A j \in 1..Len(respLog[w]) : ~respLog[w][j].err /\ respLog[w][j].ToolCalls # <<>>)
      => /\ Len(respLog[w]) = maxIterations
         /\ response[w] = "Max iterations reached. Please try a simpler request."
         /\ ~turnErr[w]

C2_Witness ==
  /\ pc["direct"] = "ret"
  /\ maxIterations = 2
  /\ Len(respLog["direct"]) = 2
  /\ \A j \in 1..2 : respLog["direct"][j].ToolCalls # <<>>
  /\ response["direct"] = "Max iterations reached. Please try a simpler request."

\* what the responses received so far must have added to the message list
RECURSIVE ExpectedTail(_)
ExpectedTail(log) ==
  IF log = <<>> THEN <<>>
  ELSE LET r == Head(log)
           n == Len(r.ToolCalls)
       IN  (IF n = 0 THEN <<>>
            ELSE <<[Role |-> "assistant", ToolCalls |-> r.ToolCalls, ToolCallID |-> ""]>>
                 \o [i \in 1..n |->
                       [Role |-> "tool", ToolCalls |-> <<>>, ToolCallID |-> r.ToolCalls[i].ID]])
           \o ExpectedTail(Tail(log))

RECURSIVE ExpectedIDs(_)
ExpectedIDs(log) ==
  IF log = <<>> THEN <<>>
  ELSE [i \in 1..Len(Head(log).ToolCalls) |-> Head(log).ToolCalls[i].ID]
       \o ExpectedIDs(Tail(log))

\* C3: in every message list passed to the provider, each tool-role message
\* carries the identifier of a tool call of an assistant message before it;
\* a response with calls c1..cn has extended the list by one assistant message
\* carrying c1..cn and then n tool messages keyed c1..cn in that order, the
\* calls having been executed in that order.
C3_ToolMessagesKeyed ==
  \A w \in Workers :
    pc[w] = "chat" =>
      LET ms == messages[w]
          tail == SubSeq(ms, baseLen[w] + 1, Len(ms))
      IN  /\ \A j \in 1..Len(ms) :
               ms[j].Role = "tool" =>
                 \E i \in 1..(j - 1) :
                   /\ ms[i].Role = "assistant"
                   /\ \E c \in 1..Len(ms[i].ToolCalls) :
                        ms[i].ToolCalls[c].ID = ms[j].ToolCallID
          /\ [j \in 1..Len(tail) |->
                [Role |-> tail[j].Role, ToolCalls |-> tail[j].ToolCalls,
                 ToolCallID |-> tail[j].ToolCallID]]
             = ExpectedTail(respLog[w])
          /\ executed[w] = ExpectedIDs(respLog[w])

C3_Witness ==
  /\ pc["direct"] = "chat"
  /\ Len(respLog["direct"]) = 1
  /\ Len(respLog["direct"][1].ToolCalls) = 2
  /\ executed["direct"] = <<"c2", "c1">>
  /\ messages["direct"][Len(messages["direct"])].ToolCallID = "c1"

\* the replies of the consumed messages of channel c, as outbound messages
RepliesFor(c, keepEmpty) ==
  LET mine == SelectSeq(turnLog, LAMBDA t : t.Channel = c /\ (keepEmpty \/ t.reply # ""))
  IN  [j \in 1..Len(mine) |->
         [Channel |-> mine[j].Channel, ChatID |-> mine[j].ChatID,
          Content |-> mine[j].reply, re |-> mine[j].id]]

IsPrefix(p, q) == Len(p) <= Len(q) /\ p = SubSeq(q, 1, Len(p))

SubscribedTo(s, c) == \E j \in 1..Len(subs[c]) : subs[c][j] = s

\* every reply handed to PublishOutbound has been dispatched
Settled == outbound = <<>> /\ pc["run"] # "publish"

\* C4 as stated: every consumed inbound message brings each subscriber of its
\* channel exactly one outbound message, in enqueue order.
C4_EveryInboundAnswered ==
  \A c \in ChannelNames : \A s \in DOMAIN delivered :
    (SubscribedTo(s, c) /\ Settled) =>
      [j \in 1..Len(delivered[s]) |-> delivered[s][j].re]
        = [j \in 1..Len(RepliesFor(c, TRUE)) |-> RepliesFor(c, TRUE)[j].re]

\* C4 as amended: inbound messages are consumed in enqueue order; each
\* subscriber of a channel receives, exactly once each and in that order, the
\* replies of the consumed messages of the channel whose reply is not empty.
C4_NonEmptyRepliesDelivered ==
  /\ \A j \in 1..Len(turnLog) : turnLog[j].id = j
  /\ \A c \in ChannelNames : \A s \in DOMAIN delivered :
       SubscribedTo(s, c) =>
         /\ IsPrefix(delivered[s], RepliesFor(c, FALSE))
         /\ Settled => delivered[s] = RepliesFor(c, FALSE)

C4_Witness ==
  \E c \in ChannelNames :
    /\ Len(subs[c]) = 2
    /\ Settled
    /\ Len(turnLog) = 2
    /\ turnLog[1].Channel = c /\ turnLog[2].Channel = c
    /\ turnLog[1].reply = "" /\ turnLog[2].reply = "ok"
    /\ \A j \in 1..2 : Len(delivered[subs[c][j]]) = 1 /\ delivered[subs[c][j]][1].re = 2

\* C5: with rate 5 and burst 10, of the calls one client makes at the instant
\* of its first call exactly the first 10 are allowed and the others denied;
\* after 15 such calls and one further second without requests, at least 5
\* more calls are allowed.
C5_BurstThenRefill ==
  \A k \in RLKeys :
    (rps = 5 /\ burst = 10 /\ mon[k].phase \in {1, 2}) =>
      /\ mon[k].a1 = (IF mon[k].n1 < 10 THEN mon[k].n1 ELSE 10)
      /\ (mon[k].phase = 2 /\ mon[k].n1 >= 15) =>
           mon[k].a2 >= (IF mon[k].n2 < 5 THEN mon[k].n2 ELSE 5)

C5_Witness ==
  /\ rps = 5 /\ burst = 10
  /\ mon[BurstClient].phase = 2
  /\ mon[BurstClient].n1 = 15 /\ mon[BurstClient].a1 = 10
  /\ mon[BurstClient].n2 = 6 /\ mon[BurstClient].a2 = 5

\* C6: every bucket's token count stays between 0 and burst.
C6_TokensWithinBurst ==
  \A k \in DOMAIN buckets :
    /\ 0 <= buckets[k].tokens
    /\ buckets[k].tokens <= burst * TicksPerSecond

\* a refill that met the cap: rate 5, burst 1, a second after the bucket was emptied
C6_Witness ==
  /\ rps = 5 /\ burst = 1
  /\ mon[BurstClient].phase = 2
  /\ mon[BurstClient].a1 = 1 /\ mon[BurstClient].a2 = 1 /\ mon[BurstClient].n2 = 2
  /\ buckets[BurstClient].tokens = 0

\* C7: NewRateLimiter replaces a non-positive rate by 5 and a non-positive
\* burst by 10, so burst is at least 1; a key seen for the first time gets a
\* bucket holding the full burst and its first request is allowed.
C7_FirstRequestAllowed ==
  /\ rps = (IF ctorArgs[1] <= 0 THEN 5 ELSE ctorArgs[1])
  /\ burst = (IF ctorArgs[2] <= 0 THEN 10 ELSE ctorArgs[2])
  /\ burst >= 1
  /\ lastReq.fresh =>
       /\ lastReq.created = burst * TicksPerSecond
       /\ lastReq.allowed
       /\ lastReq.nextCalls = 1

C7_Witness ==
  /\ ctorArgs = <<-1, 0>>
  /\ rps = 5 /\ burst = 10
  /\ lastReq.fresh /\ lastReq.allowed
  /\ lastReq.key = <<"b">>

\* C8: a call that finds more than 4096 buckets in the table (its own
\* included) removes in that call every bucket last hit more than 10 minutes
\* before it and no other; a call that finds at most 4096 removes none.
C8_IdleBucketsEvicted ==
  [][ now' = now =>
        LET size == Cardinality(DOMAIN buckets \cup {lastReq'.key}) + BagCardinality(others)
            big == size > 4096
            old(h) == now - h > 600 * TicksPerSecond
        IN  /\ \A k \in DOMAIN buckets :
                 (big /\ old(buckets[k].lastHit)) <=> k \notin DOMAIN buckets'
            /\ \A h \in DOMAIN others :
                 IF big /\ old(h) THEN CopiesIn(h, others') = 0
                 ELSE CopiesIn(h, others') >= others[h]
     ]_vars

\* a cleanup that removed the idle buckets and kept the one hit since
C8_Witness ==
  /\ lastReq.cleaned
  /\ lastReq.size = 4097
  /\ lastReq.time = 600 * TicksPerSecond + 1
  /\ BagCardinality(others) = 1
  /\ DOMAIN buckets = {<<"a">>}
  /\ mon[<<"b">>].phase # 0

\* C10: a denied request is answered 429 and the downstream handler is not
\* invoked for it; an allowed request reaches the downstream handler once.
C10_DeniedNeverReachesNext ==
  lastReq.key # <<>> =>
    IF lastReq.allowed THEN lastReq.nextCalls = 1
    ELSE lastReq.status = 429 /\ lastReq.nextCalls = 0

C10_Witness ==
  /\ lastReq.key = <<"a">>
  /\ ~lastReq.allowed
  /\ lastReq.status = 429
  /\ lastReq.nextCalls = 0
  /\ mon[<<"a">>].n1 = 11

\* the entry of a comma-separated header before its first comma
LeftmostEntry(s) ==
  LET commas == { i \in 1..Len(s) : s[i] = "," }
  IN  IF commas = {} THEN s
      ELSE SubSeq(s, 1, (CHOOSE i \in commas : \A j \in commas : i <= j) - 1)

\* s without the blanks around it
Stripped(s) ==
  LET solid == { i \in 1..Len(s) : s[i] # " " }
  IN  IF solid = {} THEN <<>>
      ELSE SubSeq(s, CHOOSE i \in solid : \A j \in solid : i <= j,
                     CHOOSE i \in solid : \A j \in solid : j <= i)

Plain(s) == \A i \in 1..Len(s) : s[i] \notin {":", "[", "]"}

\* key is what the claim names for peer address a: the host of host:port or
\* of [host]:port, the address itself when it has no colon; an address of
\* another shape is left open
PeerKey(a, key) ==
  /\ (\E h, q \in AddrValues : h # <<>> /\ Plain(h) /\ Plain(q) /\ a = h \o <<":">> \o q)
       => (\E h, q \in AddrValues : Plain(h) /\ Plain(q) /\ a = h \o <<":">> \o q /\ key = h)
  /\ (\A i \in 1..Len(a) : a[i] # ":") => key = a
  /\ key # <<>>

\* C9 as stated: the key is the trimmed leftmost X-Forwarded-For entry when
\* that is not empty; otherwise the X-Real-IP header when it is set to a
\* value; otherwise the host part of the peer address, or the peer address
\* itself when it has no port; otherwise "unknown".
C9_KeyDerivationOrder ==
  keyOut # <<"none">> =>
    LET left == Stripped(LeftmostEntry(keyReq.xff))
        rip == Stripped(keyReq.rip)
    IN  IF left # <<>> THEN keyOut = left
        ELSE IF rip # <<>> THEN keyOut = rip
        ELSE IF keyReq.remote # <<>> THEN PeerKey(keyReq.remote, keyOut)
        ELSE keyOut = <<"u", "n", "k", "n", "o", "w", "n">>

\* a request whose X-Real-IP header is blank and whose peer address is c:c
\* was given the empty key
C9_Witness ==
  /\ keyReq.xff = <<>>
  /\ keyReq.rip = <<" ">>
  /\ keyReq.remote = <<"c", ":", "c">>
  /\ keyOut = <<>>

\* C9 apart from a blank X-Real-IP header: the derivation order holds for
\* every request whose X-Real-IP header is absent or has a value
C9_KeyDerivationOrderUnlessBlank ==
  (keyReq.rip = <<>> \/ Stripped(keyReq.rip) # <<>>) => C9_KeyDerivationOrder

\* C11: a request whose handler panics is answered with a generic 500 and
\* the panic goes no further: the server keeps serving, and a later /health
\* request that reaches its handler is answered with 200.
C11_PanicRecovered ==
  /\ lastHttp.panicked =>
       lastHttp.status = 500 /\ lastHttp.body = "internal server error"
  /\ panics > 0 => gw = "serving"
  /\ (panics > 0 /\ lastHttp.path = "/health" /\ lastHttp.allowed) =>
       lastHttp.status = 200

C11_Witness ==
  /\ panics = 1
  /\ lastHttp.path = "/health"
  /\ lastHttp.key = <<"a">>
  /\ lastHttp.n = 2
  /\ lastHttp.status = 200

\* C12: Chain(h, a, b) is a(b(h)); every request runs through the gateway's
\* middleware in declared order, Recoverer first, then MaxBodyBytes, then
\* the rate limiter, and the mux last.
C12_ChainOrder ==
  /\ \A a, b \in {"Recoverer", "MaxBodyBytes", "RateLimiter"} :
       Chain(<<"h">>, <<a, b>>) = <<a, b, "h">>
  /\ apiHandler = <<"Recoverer", "MaxBodyBytes", "RateLimiter", "apiMux">>
  /\ lastHttp.n > 0 =>
       /\ IsPrefix(lastHttp.trace, <<"Recoverer", "MaxBodyBytes", "RateLimiter", "apiMux">>)
       /\ Len(lastHttp.trace) >= 3
       /\ lastHttp.allowed <=> Len(lastHttp.trace) = 4

C12_Witness ==
  /\ lastHttp.path = "/ready"
  /\ lastHttp.trace = <<"Recoverer", "MaxBodyBytes", "RateLimiter", "apiMux">>
  /\ lastHttp.status = 503

\* C13 as stated: every /health request is answered with 200 once the
\* server is up, whatever the readiness state and whatever the client has
\* sent before.
C13_HealthAlwaysOK ==
  lastHttp.path = "/health" => lastHttp.status = 200

\* a client's second /health request at one instant, with burst 1, got 429
C13_Witness ==
  /\ burst = 1
  /\ lastHttp.path = "/health"
  /\ lastHttp.n = 2
  /\ ~lastHttp.allowed
  /\ lastHttp.status = 429

\* C13 for the requests the rate limiter lets through: the /health handler
\* answers 200 whatever the readiness state
C13_HealthOKWhenAdmitted ==
  (lastHttp.path = "/health" /\ lastHttp.allowed) => lastHttp.status = 200

C15_ChatFailureGeneric ==
  /\ lastHttp.failed =>
       lastHttp.status = 500 /\ lastHttp.body = "internal server error"
  /\ lastHttp.body \notin {"provider error", "LLM call failed: provider error",
                           "Error: LLM call failed: provider error"}

C15_Witness ==
  /\ lastHttp.path = "/chat"
  /\ lastHttp.failed
  /\ lastHttp.status = 500
  /\ sessions[LocalDefault] = <<[Role |-> "user", Content |-> "hi"]>>

\* the reply Run builds from the error of a failed provider call
ErrorReplyText == "Error: LLM call failed: provider error"

\* how many messages of a sequence answer inbound message id
RepliesTo(q, id) == Cardinality({ j \in 1..Len(q) : q[j].re = id })

\* C16: when a turn of Run fails, Run goes on to publish, to the turn's
\* channel and chat, one reply whose text is "Error: " followed by the
\* error; after publishing it Run tests l.running and consumes the next
\* inbound message (it leaves its loop only when Stop was called); no
\* inbound message is answered twice.
C16_FailedTurnReplied ==
  /\ [][(pc["run"] = "ret" /\ turnErr["run"] /\ pc'["run"] # "ret") =>
         /\ pc'["run"] = "publish"
         /\ response'["run"] = ErrorReplyText
         /\ cur'["run"] = cur["run"]
         /\ outbound' = outbound]_vars
  /\ [][(pc["run"] = "publish" /\ turnErr["run"] /\ pc'["run"] # "publish") =>
         /\ outbound' = Append(outbound,
               [Channel |-> cur["run"].Channel, ChatID |-> cur["run"].ChatID,
                Content |-> ErrorReplyText, re |-> cur["run"].id])
         /\ pc'["run"] = (IF running THEN "consume" ELSE "exited")]_vars
  /\ [](\A id \in 1..MaxInbound :
          /\ RepliesTo(outbound, id) <= 1
          /\ \A s \in DOMAIN delivered : RepliesTo(delivered[s], id) <= 1)

C16_Witness ==
  /\ Len(turnLog) = 2
  /\ turnLog[1].reply = ErrorReplyText
  /\ turnLog[2].reply = "ok"
  /\ running /\ pc["run"] = "consume"
  /\ \E s \in DOMAIN delivered :
       /\ Len(delivered[s]) = 2
       /\ delivered[s][1].Content = ErrorReplyText /\ delivered[s][1].re = 1
       /\ delivered[s][2].Content = "ok"

\* C17: a provider call that fails is the last provider call of its turn:
\* the turn returns at once with an error and the empty response, and the
\* tools executed in the turn are exactly the tool calls of the responses
\* before the failed call.
C17_ProviderErrorAborts ==
  \A w \in Workers :
    \A j \in 1..Len(respLog[w]) :
      respLog[w][j].err =>
        /\ j = Len(respLog[w])
        /\ pc[w] = "ret"
        /\ turnErr[w]
        /\ response[w] = ""
        /\ pending[w] = <<>>
        /\ executed[w] = ExpectedIDs(SubSeq(respLog[w], 1, j - 1))

C17_Witness ==
  /\ pc["direct"] = "ret"
  /\ Len(respLog["direct"]) = 2
  /\ Len(respLog["direct"][1].ToolCalls) = 2
  /\ respLog["direct"][2].err
  /\ turnErr["direct"]
  /\ Len(executed["direct"]) = 2

\* the texts with which Execute turns a call down
RefusalHeads ==
  {"Error: command is required", "Error: command blocked for safety: ",
   "Error: path traversal not allowed", "Error: working directory must be within workspace"}

\* C18: a call of Execute whose command matches one of DenyPatterns returns,
\* with a nil error, the text "Error: command blocked for safety: " followed
\* by the first pattern matched, and runs no process, whether or not the call
\* names a working directory and whether or not the tool is confined.
C18_DeniedNeverRuns ==
  /\ [](\A i \in 1..Len(DenyPatterns) :
          (execOut # NoExecOut /\ CommandChecks[execIn.command].deny = i) =>
            /\ execOut = [result |-> <<"Error: command blocked for safety: ",
                                       DenyPatterns[i].text>>,
                          err |-> FALSE]
            /\ lastProc = NoProc)
  /\ [][CommandChecks[execIn'.command].deny # 0 => spawned' = spawned]_vars

C18_Witness ==
  /\ execIn = [command |-> <<"r", "m", " ", "-", "r", "f", " ", "/">>,
               working_dir |-> <<"/", "e", "t", "c">>]
  /\ ~execCfg.RestrictToWorkspace
  /\ execOut.result = <<"Error: command blocked for safety: ", "\\brm\\s+(-[rf]+\\s+)*[/~]">>
  /\ lastProc = NoProc
  /\ spawned = 1

\* p lies in the directory root or below it (both absolute and cleaned,
\* given by their elements)
Within(p, root) == Len(p) >= Len(root) /\ SubSeq(p, 1, Len(root)) = root

\* the call names a working directory, the tool is confined to a workspace
ConfinedDirCall ==
  /\ execOut # NoExecOut
  /\ execCfg.RestrictToWorkspace
  /\ execCfg.WorkDir # <<>>
  /\ "working_dir" \in DOMAIN execIn
  /\ execIn.working_dir # <<>>

\* the call was turned down and ran nothing
Refused == execOut.result[1] \in RefusalHeads /\ ~execOut.err /\ lastProc = NoProc

\* C19 as stated: a confined tool turns down, and runs nothing for, every
\* call whose working directory, made absolute, is neither the workspace
\* root nor below it.
C19_OutsideRefused ==
  (/\ ConfinedDirCall
   /\ ~Within(AbsElements(cwd, execIn.working_dir), AbsElements(cwd, execCfg.WorkDir)))
    => Refused

\* the confined tool ran a command in a directory beside the workspace root
C19_Witness ==
  /\ ConfinedDirCall
  /\ execCfg.WorkDir = <<"/", "w">>
  /\ execIn = [command |-> <<"l", "s">>, working_dir |-> <<"/", "w", "x">>]
  /\ lastProc.Dir = <<"/", "w", "x">>
  /\ lastProc.outcome.run = "ok"

\* C19, what the code ensures: a confined tool turns down every call whose
\* working directory, made absolute, does not start with the text of the
\* absolute workspace root.
C19_RefusedUnlessTextPrefix ==
  (/\ ConfinedDirCall
   /\ ~HasPrefix(Abs(cwd, execIn.working_dir), Abs(cwd, execCfg.WorkDir)))
    => Refused

\* C20: Execute never returns an error.  When the context's deadline has
\* passed after the run it returns "Error: command timed out after " with the
\* timeout, a line end and the captured output; when the run ended with a
\* non-zero exit code before the deadline it returns the captured output
\* followed by "\nExit code: " and the code.
C20_FailuresAreText ==
  /\ ~execOut.err
  /\ lastProc # NoProc =>
       /\ lastProc.outcome.ctx = "deadline" =>
            execOut.result =
              <<"Error: command timed out after ">>
                \o DurationText(IF execCfg.Timeout = 0 THEN 60 ELSE execCfg.Timeout)
                \o <<"\n">> \o BuildResult(lastProc.outcome)
       /\ (lastProc.outcome.ctx # "deadline" /\ lastProc.outcome.run = "exit") =>
            execOut.result =
              BuildResult(lastProc.outcome) \o <<"\nExit code: ">> \o Itoa(lastProc.outcome.code)

C20_Witness ==
  /\ execCfg.Timeout = 0
  /\ lastProc.outcome.ctx = "deadline"
  /\ lastProc.outcome.run = "exit"
  /\ execOut = [result |-> <<"Error: command timed out after ", "1", "m", "0", "s", "\n", "out">>,
                err |-> FALSE]

\* C21 as stated: once the context is cancelled inside a provider call or a
\* tool execution, the call in progress is the turn's last: when it returns
\* the turn is at its return with an error, and no turn that was cancelled
\* returns without an error.
C21_CancelAborts ==
  /\ [][(/\ cancelled
         /\ pc["direct"] \in {"chat", "tool"}
         /\ (executed'["direct"] # executed["direct"] \/ respLog'["direct"] # respLog["direct"]))
          => (pc'["direct"] = "ret" /\ turnErr'["direct"])]_vars
  /\ []((cancelled /\ pc["direct"] = "ret") => turnErr["direct"])

\* a turn cancelled inside its last tool execution returns the
\* max-iterations text with no error
C21_Witness ==
  /\ cancelled
  /\ pc["direct"] = "ret"
  /\ ~turnErr["direct"]
  /\ response["direct"] = MaxIterationsMessage
  /\ Len(respLog["direct"]) = 1
  /\ Len(executed["direct"]) = 2

\* C21, what the code ensures with a provider that honours the context: the
\* provider call in progress at the cancellation, or the first one after
\* it, is the turn's last and ends the turn with an error and the empty
\* response.
C21_CancelledChatAborts ==
  [][(cancelled /\ pc["direct"] = "chat" /\ respLog'["direct"] # respLog["direct"])
      => (pc'["direct"] = "ret" /\ turnErr'["direct"] /\ response'["direct"] = "")]_vars

\* the text that reports a missing field
IsRequiredText(field) ==
  CASE field = "path"     -> <<"Error: path is required">>
    [] field = "content"  -> <<"Error: content is required">>
    [] field = "old_text" -> <<"Error: old_text is required">>
    [] field = "new_text" -> <<"Error: new_text is required">>
    [] field = "command"  -> <<"Error: command is required">>

\* the fields of ToolRequired(name) that params lacks
MissingFields(name, params) == { f \in ToolRequired(name) : f \notin DOMAIN params }

\* C22 as stated: a call of a built-in tool that lacks a field its schema
\* lists as required returns, with a nil error, a text that reports one of the
\* missing fields.
C22_MissingFieldReported ==
  /\ callIn # NoCall =>
       (MissingFields(callIn.fn, callIn.params) # {} =>
          /\ ~callOut.err
          /\ \E f \in MissingFields(callIn.fn, callIn.params) : callOut.result = IsRequiredText(f))
  /\ (execOut # NoExecOut /\ MissingFields("exec", execIn) # {}) =>
       execOut = [result |-> IsRequiredText("command"), err |-> FALSE]

\* write_file called without content reports a successful write of 0 bytes
C22_Witness ==
  /\ callIn = [fn |-> "write_file", params |-> [path |-> <<"f">>], fs |-> "ok"]
  /\ callOut = [err |-> FALSE,
                result |-> <<"Successfully wrote ", "0", " bytes to ", "f">>]

\* C22, what the code ensures: no call returns an error; a call without
\* path (read_file, write_file, edit_file), without old_text (edit_file,
\* path given) or without command (exec) returns the text that reports it.
C22_CheckedFieldsReported ==
  /\ callIn # NoCall =>
       /\ ~callOut.err
       /\ (callIn.fn # "list_dir" /\ "path" \notin DOMAIN callIn.params) =>
            callOut.result = IsRequiredText("path")
       /\ (/\ callIn.fn = "edit_file"
           /\ GetString(callIn.params, "path", <<>>) # <<>>
           /\ "old_text" \notin DOMAIN callIn.params) =>
            callOut.result = IsRequiredText("old_text")
  /\ (execOut # NoExecOut /\ "command" \notin DOMAIN execIn) =>
       execOut = [result |-> IsRequiredText("command"), err |-> FALSE]

\* C23: when the tool call being executed names no registered tool, the
\* turn's next step appends a tool message keyed by that call whose content
\* is the "not found" text, sets no error, and goes on: to the next tool call
\* of the response when there is one, otherwise to the next iteration (the
\* provider call, or the max-iterations return when the cap is reached).
C23_UnknownToolReported ==
  [][\A w \in Workers :
       (/\ pc[w] = "tool"
        /\ Head(pending[w]).Name \notin RegisteredTools
        /\ executed'[w] # executed[w])
         => /\ messages'[w] = Append(messages[w],
                 [Role |-> "tool", Content |-> "Error: tool not found",
                  ToolCalls |-> <<>>, ToolCallID |-> Head(pending[w]).ID])
            /\ executed'[w] = Append(executed[w], Head(pending[w]).ID)
            /\ pending'[w] = Tail(pending[w])
            /\ ~turnErr'[w]
            /\ pc'[w] = (IF Tail(pending[w]) # <<>> THEN "tool"
                         ELSE IF iter[w] + 1 < maxIterations THEN "chat" ELSE "ret")]_vars

C23_Witness ==
  /\ pc["direct"] = "chat"
  /\ iter["direct"] = 1
  /\ respLog["direct"][1].ToolCalls =
       <<[ID |-> "c2", Name |-> "nope"], [ID |-> "c1", Name |-> "read_file"]>>
  /\ executed["direct"] = <<"c2", "c1">>
  /\ messages["direct"][Len(messages["direct"]) - 1].Content = "Error: tool not found"
  /\ messages["direct"][Len(messages["direct"])].Content = "tool output"

\* a worker is inside ProcessDirect: past GetOrCreate, before it returns
InTurn(w) == pc[w] \in {"chat", "tool", "ret"}

\* C24: the turns of one conversation key are serialised: the Run worker and
\* a /chat handler are never inside ProcessDirect for the same session key
\* at the same time.
C24_TurnsSerialised ==
  ~(InTurn("run") /\ InTurn("direct") /\ cur["run"].key = cur["direct"].key)

\* both workers are inside a turn on the session "t:1", which already holds
\* the user message of each and the reply of neither
C24_Witness ==
  /\ pc["run"] = "chat"
  /\ pc["direct"] = "chat"
  /\ cur["run"].key = <<"t", ":", "1">>
  /\ cur["direct"].key = <<"t", ":", "1">>
  /\ sessions[<<"t", ":", "1">>] =
       <<[Role |-> "user", Content |-> "hi"], [Role |-> "user", Content |-> "hi"]>>

\* C24, what does hold: a session is written only by a worker whose turn is
\* on that session's key; turns on different keys never touch each other's
\* session.
C24_OtherKeysUntouched ==
  [][\A k \in DOMAIN sessions :
       sessions'[k] # sessions[k]
         => \E w \in Workers :
              /\ cur'[w].key = k
              /\ \/ ~InTurn(w) /\ InTurn(w)'
                 \/ pc[w] = "ret" /\ ~InTurn(w)']_vars

\* C25: a turn, whichever worker runs it (Run through processMessage, or a
\* direct caller), goes through the same sequence. Entering records the user
\* input at the end of the turn's session and persists nothing; the cycle in
\* between writes neither the session store nor the persisted copy; leaving
\* without error appends the final response as an assistant message and
\* persists the session as it then is; leaving with an error writes nothing.
\* So a successful turn adds one user and one assistant message of its own.
C25_TurnSequence ==
  [][\A w \in Workers :
       LET key == cur'[w].key
           old == IF key \in DOMAIN sessions THEN sessions[key] ELSE <<>>
       IN  /\ (~InTurn(w) /\ InTurn(w)')
              => /\ sessions'[key] = Append(old, [Role |-> "user", Content |-> cur'[w].Content])
                 /\ saved' = saved
           /\ (InTurn(w) /\ InTurn(w)' /\ pc'[w] # pc[w])
              => sessions' = sessions /\ saved' = saved
           /\ (InTurn(w) /\ ~InTurn(w)')
              => /\ pc[w] = "ret"
                 /\ IF turnErr[w]
                    THEN sessions' = sessions /\ saved' = saved
                    ELSE /\ sessions'[key] =
                              Append(old, [Role |-> "assistant", Content |-> response[w]])
                         /\ saved'[key] = sessions'[key]]_vars

\* a turn of each entry point has succeeded, each on its own session: both
\* sessions hold the input and the reply, and so do the persisted copies
C25_Witness ==
  /\ ~InTurn("run") /\ ~InTurn("direct")
  /\ ~turnErr["run"] /\ ~turnErr["direct"]
  /\ Len(turnLog) = 1
  /\ directCalls = 1
  /\ cur["run"].key = <<"w", ":", "1">>
  /\ cur["direct"].key = LocalDefault
  /\ \A k \in {<<"w", ":", "1">>, LocalDefault} :
       /\ sessions[k] = <<[Role |-> "user", Content |-> "hi"],
                          [Role |-> "assistant", Content |-> "ok"]>>
       /\ saved[k] = sessions[k]

\* the steps of runGateway's shutdown, in the order of the code
ShutdownSteps ==
  <<"begin", "api drained", "dash drained", "wa.Stop", "loop.Stop", "timeSvc.Close", "return">>

C27_MessageOrCancellation ==
  [][(/\ pc["run"] = "consume"
      /\ pc'["run"] # "consume" \/ Len(inbound') < Len(inbound))
       => \/ /\ inbound # <<>>
             /\ inbound' = Tail(inbound)
             /\ InTurn("run")'
             /\ cur'["run"].id = Head(inbound).id
             /\ cur'["run"].Channel = Head(inbound).Channel
             /\ cur'["run"].ChatID = Head(inbound).ChatID
             /\ cur'["run"].Content = Head(inbound).Content
          \/ /\ cancelled
             /\ pc'["run"] = "exited"
             /\ UNCHANGED <<inbound, outbound, sessions, saved, cur, turnLog, messages>>]_vars

\* Run has returned on the cancellation, not on Stop, with a message still
\* waiting in the queue, after a turn it had consumed whole
C27_Witness ==
  /\ pc["run"] = "exited"
  /\ running
  /\ cancelled
  /\ inbound # <<>>
  /\ Len(turnLog) = 1

\* C28: once Stop has been called (running is false while Run waits in
\* ConsumeInbound), Run starts no further turn.
C28_NoTurnAfterStop ==
  [][~(pc["run"] = "consume" /\ ~running /\ InTurn("run")')]_vars

\* Stop was called while Run was waiting with nothing to consume; a message
\* has arrived since, and Run is processing it
C28_Witness ==
  /\ ~running
  /\ ~cancelled
  /\ InTurn("run")
  /\ turnLog = <<>>
  /\ published = 1
  /\ inbound = <<>>
  /\ cur["run"].id = 1

\* the part of the session before the turn that the window of 50, which
\* also holds the recorded input, leaves room for
WindowBefore(prior) ==
  IF Len(prior) <= HistoryWindow - 1 THEN prior
  ELSE SubSeq(prior, Len(prior) - HistoryWindow + 2, Len(prior))

RedactionShape(key, out) ==
  /\ key = <<>> => out = <<>>
  /\ Len(key) \in 1..8 => out = Redacted
  /\ Len(key) > 8 =>
       /\ Len(out) = 11
       /\ \A j \in 1..4 : out[j] = key[j] /\ out[7 + j] = key[Len(key) - 4 + j]
       /\ \A j \in 5..7 : out[j] = "."

\* C30: RedactAPIKey gives the empty string for the empty key, "[REDACTED]"
\* for a key of 1 to 8 characters, otherwise the first 4 characters, "..."
\* and the last 4; and for every non-empty key the result differs from the key.
C30_RedactedDiffers ==
  callIn.fn = "RedactAPIKey" =>
    /\ RedactionShape(callIn.key, callOut)
    /\ callIn.key # <<>> => callOut # callIn.key

\* a key of 11 bytes whose middle is "...": the result is the key
C30_Witness ==
  /\ callIn.fn = "RedactAPIKey"
  /\ callIn.key = <<"a", "a", "a", "a", ".", ".", ".", "a", "a", "a", "a">>
  /\ callOut = callIn.key

\* C30, what does hold: the three cases, and the result differs from a
\* non-empty key unless the key has 11 bytes with "..." in the middle.
C30_RedactedDiffersUnlessDotted ==
  callIn.fn = "RedactAPIKey" =>
    /\ RedactionShape(callIn.key, callOut)
    /\ (callIn.key # <<>> /\ callOut = callIn.key)
         => Len(callIn.key) = 11 /\ SubSeq(callIn.key, 5, 7) = <<".", ".", ".">>

\* the callers of allow that have returned, and those that were let through
Returned == { c \in Callers : apc[c] = "done" }
Allowed == { c \in Callers : aret[c] = "allowed" }

\* C31: requests of one client key made concurrently at one instant, on a
\* bucket that starts full: whenever no call is in progress, the calls that
\* have returned true are min(N, burst) of the N that have returned, and the
\* bucket holds the tokens that are left; this under every order in which
\* the callers reach the mutex.
C31_ConcurrentAllowExact ==
  /\ Cardinality(Allowed) <= burst
  /\ (\A c \in Callers : apc[c] \in {"idle", "done"})
       => /\ Cardinality(Allowed) = Min(Cardinality(Returned), burst)
          /\ Returned # {} =>
               buckets[BurstClient].tokens = (burst - Cardinality(Allowed)) * OneToken

\* every caller has made its call on a burst of 2: two were allowed, the
\* last caller among them, and one was denied
C31_Witness ==
  /\ burst = 2
  /\ Returned = Callers
  /\ aret[MaxCallers] = "allowed"
  /\ Cardinality(Allowed) = 2
  /\ \E c \in Callers : aret[c] = "denied"
  /\ mu = 0

\* C32: whatever max-iterations value is configured, the loop's cap is
\* positive, and a turn that returns the max-iterations text has called the
\* provider at least once.
C32_PositiveCap ==
  /\ maxIterations >= 1
  /\ \A w \in Workers :
       (pc[w] = "ret" /\ response[w] = MaxIterationsMessage) => Len(respLog[w]) >= 1

\* the cap is negative: the turn has returned the max-iterations text, as a
\* normal response, without any provider call
C32_Witness ==
  /\ maxIterations = -1
  /\ pc["direct"] = "ret"
  /\ respLog["direct"] = <<>>
  /\ response["direct"] = MaxIterationsMessage
  /\ ~turnErr["direct"]

\* C32, what does hold: the cap is never zero (an unset value becomes 20),
\* and with a positive cap a turn that returns the max-iterations text has
\* made exactly that many provider calls.
C32_PositiveCapUnlessNegative ==
  /\ maxIterations # 0
  /\ maxIterations \in {NewLoopMaxIter(opt) : opt \in CapOpts}
  /\ \A w \in Workers :
       (maxIterations >= 1 /\ pc[w] = "ret" /\ response[w] = MaxIterationsMessage)
         => Len(respLog[w]) = maxIterations

\* C33: when every provider call and every tool execution returns, a turn
\* comes to its end; it never makes more than maxIterations provider calls,
\* each call of a response received is executed once, in the order received,
\* and at the end the tool executions are as many as the tool calls of the
\* responses received.
C33_TurnBounded ==
  /\ [](\A w \in Workers :
          /\ Len(respLog[w]) <= maxIterations
          /\ Len(executed[w]) <= Len(ExpectedIDs(respLog[w]))
          /\ pc[w] = "ret" => Len(executed[w]) = Len(ExpectedIDs(respLog[w])))
  /\ (pc["direct"] \in {"chat", "tool"}) ~> (pc["direct"] = "ret")

\* a turn has ended at the cap of 2 after two responses with 2 and 1 tool
\* calls: three tool executions
C33_Witness ==
  /\ pc["direct"] = "ret"
  /\ maxIterations = 2
  /\ Len(respLog["direct"]) = 2
  /\ Len(respLog["direct"][1].ToolCalls) = 2
  /\ Len(respLog["direct"][2].ToolCalls) = 1
  /\ Len(executed["direct"]) = 3

\* C34: the message Run consumes stays the turn's message until the reply is
\* published; the outbound queue grows only by Run's publishing, and the
\* message it then gets carries the channel and the chat of the consumed
\* message, with the turn's reply as content. So every message in the queue
\* answers, on its channel and chat, a consumed inbound message.
C34_ReplyRouted ==
  /\ [][/\ (pc["run"] = "consume" /\ InTurn("run")')
            => /\ cur'["run"].id = Head(inbound).id
               /\ cur'["run"].Channel = Head(inbound).Channel
               /\ cur'["run"].ChatID = Head(inbound).ChatID
        /\ pc["run"] \in {"chat", "tool", "ret", "publish"} => cur'["run"] = cur["run"]
        /\ outbound' # outbound
            => /\ pc["run"] = "publish"
               /\ Len(outbound') = Len(outbound) + 1
               /\ SubSeq(outbound', 1, Len(outbound)) = outbound
               /\ outbound'[Len(outbound')].Channel = cur["run"].Channel
               /\ outbound'[Len(outbound')].ChatID = cur["run"].ChatID
               /\ outbound'[Len(outbound')].Content = response["run"]]_vars
  /\ [](\A j \in 1..Len(outbound) :
          \E t \in 1..Len(turnLog) :
            /\ turnLog[t].id = outbound[j].re
            /\ turnLog[t].Channel = outbound[j].Channel
            /\ turnLog[t].ChatID = outbound[j].ChatID)

\* two conversations of one channel were answered, each on its own chat
C34_Witness ==
  /\ Len(outbound) = 2
  /\ outbound[1].Channel = <<"w">> /\ outbound[1].ChatID = <<"2">>
  /\ outbound[2].Channel = <<"w">> /\ outbound[2].ChatID = <<"1">>
  /\ turnLog[1].ChatID = <<"2">>
  /\ turnLog[2].ChatID = <<"1">>

\* the replies of the first n finished turns, the empty ones left out
RECURSIVE PublishedReplies(_)
PublishedReplies(n) ==
  IF n = 0 THEN <<>>
  ELSE PublishedReplies(n - 1)
       \o (IF turnLog[n].reply = "" THEN <<>>
           ELSE <<[Channel |-> turnLog[n].Channel, ChatID |-> turnLog[n].ChatID,
                   Content |-> turnLog[n].reply, re |-> turnLog[n].id]>>)

\* C35: Run handles one inbound message at a time. The turns finish in the
\* order the messages were published to the bus; whenever Run is about to
\* consume, or has returned, what it has published so far are the replies of
\* all finished turns, in that order (a turn with an empty reply publishes
\* nothing); while it waits in PublishOutbound only the reply of the last
\* finished turn is missing; and a turn in progress is the one after the
\* last finished.
C35_OneAtATime ==
  /\ \A t \in 1..Len(turnLog) : turnLog[t].id = t
  /\ pc["run"] \in {"init", "consume", "exited"} => outbound = PublishedReplies(Len(turnLog))
  /\ pc["run"] = "publish"
       => /\ turnLog # <<>>
          /\ outbound = PublishedReplies(Len(turnLog) - 1)
  /\ InTurn("run")
       => /\ cur["run"].id = Len(turnLog) + 1
          /\ outbound = PublishedReplies(Len(turnLog))

\* two messages were consumed and answered, in their order
C35_Witness ==
  /\ pc["run"] = "consume"
  /\ Len(turnLog) = 2
  /\ Len(outbound) = 2
  /\ outbound[1].re = 1
  /\ outbound[2].re = 2
  /\ outbound[1].Content = "Error: LLM call failed: provider error"
  /\ outbound[2].Content = "ok"

\* a request of the followed client directly after an allowed request of
\* that client, at the same instant
AgainAtOnce ==
  /\ now' = now
  /\ mon'[BurstClient] # mon[BurstClient]
  /\ lastReq.key = BurstClient
  /\ lastReq.time = now
  /\ lastReq.allowed

\* C36: with a burst of one, a client that was just allowed is not allowed
\* again at the same instant, whatever the cleanup did during its requests.
C36_BurstPerInstant ==
  [][(burst = 1 /\ AgainAtOnce) => ~lastReq'.allowed]_vars

\* ten minutes after its last request the client is allowed twice at one
\* instant on a burst of one: the second request found no bucket and got a
\* new, full one
C36_Witness ==
  /\ burst = 1
  /\ now > IdleWindow
  /\ lastReq.key = BurstClient
  /\ lastReq.time = now
  /\ lastReq.allowed
  /\ lastReq.fresh
  /\ lastReq.created = OneToken
  /\ mon[BurstClient].c = 2

\* C36, what does hold: the client is not allowed again at the same instant
\* as long as its bucket is in the table after the allowed request.
C36_BurstPerInstantWhileKept ==
  [][(burst = 1 /\ AgainAtOnce /\ BurstClient \in DOMAIN buckets) => ~lastReq'.allowed]_vars

\* what ProcessDirect parsed is the pair the key was built from
ParsedBack(in, out) == out.channel = in.Channel /\ out.chatID = in.ChatID

\* C37: the pair ProcessDirect parses back from the key processMessage built
\* is the original (channel, chat ID) pair, and two distinct pairs never
\* share a session key.
C37_KeyRoundTrip ==
  callIn.fn = "processMessage" =>
    /\ ParsedBack(callIn.a, callOut.a)
    /\ ParsedBack(callIn.b, callOut.b)
    /\ callIn.a # callIn.b => callOut.a.key # callOut.b.key

\* channel "a:" with chat "a" and channel "a" with chat ":a" both get the key
\* "a::a", and both are parsed back as channel "a", chat ":a"
C37_Witness ==
  /\ callIn.fn = "processMessage"
  /\ callIn.a = [Channel |-> <<"a", ":">>, ChatID |-> <<"a">>]
  /\ callIn.b = [Channel |-> <<"a">>, ChatID |-> <<":", "a">>]
  /\ callOut.a.key = <<"a", ":", ":", "a">>
  /\ callOut.b.key = callOut.a.key
  /\ callOut.a.channel = <<"a">>
  /\ callOut.a.chatID = <<":", "a">>

NoColon(s) == \A i \in 1..Len(s) : s[i] # ":"

\* C37, what does hold: a pair whose channel name has no ":" is parsed back
\* unchanged, and two distinct such pairs have distinct keys.
C37_KeyRoundTripWithoutColon ==
  callIn.fn = "processMessage" =>
    /\ NoColon(callIn.a.Channel) => ParsedBack(callIn.a, callOut.a)
    /\ NoColon(callIn.b.Channel) => ParsedBack(callIn.b, callOut.b)
    /\ (NoColon(callIn.a.Channel) /\ NoColon(callIn.b.Channel) /\ callIn.a # callIn.b)
         => callOut.a.key # callOut.b.key

\* C38: a failed turn leaves the session with its user message appended and
\* no assistant message, and persists nothing; the next turn on the same key
\* is built on a history that has the unanswered user message, directly
\* before the new one.
C38_FailedTurnKeepsUserMessage ==
  [][LET key == cur["direct"].key
         unanswered == [Role |-> "user", Content |-> cur["direct"].Content]
     IN  /\ (pc["direct"] = "ret" /\ turnErr["direct"] /\ pc'["direct"] = "idle")
              => /\ sessions[key][Len(sessions[key])] = unanswered
                 /\ sessions' = sessions
                 /\ saved' = saved
         /\ (pc["direct"] = "idle" /\ directCalls > 0 /\ turnErr["direct"]
               /\ pc'["direct"] # "idle" /\ cur'["direct"].key = key)
              => LET ms == messages'["direct"]
                 IN  /\ sessions'[key] = Append(sessions[key],
                                                [Role |-> "user", Content |-> cur'["direct"].Content])
                     /\ sessions[key][Len(sessions[key])] = unanswered
                     /\ Len(ms) >= 3
                     /\ ms[Len(ms) - 1] = Msg("user", cur["direct"].Content)
                     /\ ms[Len(ms)] = Msg("user", cur'["direct"].Content)
                     /\ saved' = saved]_vars

\* "hi" failed and was never persisted; "again" on the same key is sent to
\* the provider after it
C38_Witness ==
  /\ directCalls = 2
  /\ pc["direct"] = "chat"
  /\ cur["direct"].key = <<"a", ":", "b">>
  /\ sessions[<<"a", ":", "b">>] = <<[Role |-> "user", Content |-> "hi"],
                                     [Role |-> "user", Content |-> "again"]>>
  /\ <<"a", ":", "b">> \notin DOMAIN saved
  /\ Len(messages["direct"]) = 3
  /\ messages["direct"][2] = Msg("user", "hi")
  /\ messages["direct"][3] = Msg("user", "again")

\* C39: a session only ever holds user and assistant messages, every
\* assistant message being the reply to the user message directly before it,
\* so the tool-call and tool-result messages of a turn are never written to
\* it; and a turn that ends on the max-iterations text records that text as
\* its assistant reply and persists the session.
C39_SessionHoldsTurnsOnly ==
  /\ [](\A k \in DOMAIN sessions : \A j \in 1..Len(sessions[k]) :
          /\ DOMAIN sessions[k][j] = {"Role", "Content"}
          /\ sessions[k][j].Role \in {"user", "assistant"}
          /\ sessions[k][j].Role = "assistant"
               => j > 1 /\ sessions[k][j - 1].Role = "user")
  /\ [][(pc["direct"] = "ret" /\ ~turnErr["direct"] /\ pc'["direct"] = "idle"
           /\ response["direct"] = MaxIterationsMessage)
          => LET key == cur["direct"].key
             IN  /\ sessions'[key] = Append(sessions[key],
                                            [Role |-> "assistant", Content |-> MaxIterationsMessage])
                 /\ key \in DOMAIN saved'
                 /\ saved'[key] = sessions'[key]]_vars

\* a turn with a tool call in each of its two passes has returned the
\* max-iterations text: the session and its persisted copy hold the user
\* message and that text, nothing of the tool calls
C39_Witness ==
  /\ pc["direct"] = "idle"
  /\ directCalls = 1
  /\ maxIterations = 2
  /\ response["direct"] = MaxIterationsMessage
  /\ sessions[cur["direct"].key] = <<[Role |-> "user", Content |-> "hi"],
                                     [Role |-> "assistant", Content |-> MaxIterationsMessage]>>
  /\ cur["direct"].key \in DOMAIN saved
  /\ saved[cur["direct"].key] = sessions[cur["direct"].key]

====
